---- MODULE Spec2Model ----
(***************************************************************************)
(* Upload-completion and background-indexing workflow of HiReadyContinued. *)
(* The upload router (presigned URL, /complete, /segmentation-complete),   *)
(* its retry helper tryFlask and the segment updater                       *)
(* updateLectureWithSegments, over a document store holding Course and     *)
(* Lecturer documents.  Every await of the handlers that touches the       *)
(* document store is a separate step, so that concurrent requests and the  *)
(* un-awaited segmentation continuation interleave as they do in Node.     *)
(***************************************************************************)
EXTENDS Integers, Sequences, FiniteSets, TLC

(***************************************************************************)
(* Bounds of the model.                                                    *)
(***************************************************************************)
\* Handler and updater invocations started in one behaviour: upload
\* completions, webhooks and segmentation continuations that got a success.
MaxOps == 2
\* Document-store or signing failures injected in one behaviour.
MaxFailures == 1

\* tryFlask is run with retries from 0 to MaxRetries.
MaxRetries == 3

\* connectDB starts at most MaxConnects mongoose.connect attempts.
MaxConnects == 3

\* A quiz has at most MaxQuestions questions.
MaxQuestions == 3

\* At most MaxSends chat messages are sent.
MaxSends == 2

(***************************************************************************)
(* Program constants.                                                      *)
(***************************************************************************)
\* tryFlask(fn, label, retries = 2, delayMs = 1000)
DefaultRetries == 2
DefaultDelayMs == 1000
\* getSignedUrl(..., { expiresIn: 3600 })
ExpiresIn == 3600

(***************************************************************************)
(* Segments.  A raw segment is a record holding any subset of the fields   *)
(* the AI service may send; a missing field is a field outside its DOMAIN. *)
(* Numbers and strings keep JavaScript's truthiness: 0 and "" are falsy.   *)
(***************************************************************************)
TruthyNum(seg, f) == f \in DOMAIN seg /\ seg[f] # 0

TruthyStr(seg, f) == f \in DOMAIN seg /\ seg[f] # ""

\* seg.a || seg.b || d   for numeric fields
NumOr(seg, a, b, d) ==
    IF TruthyNum(seg, a) THEN seg[a]
    ELSE IF TruthyNum(seg, b) THEN seg[b]
    ELSE d

\* seg.a || seg.b || d   for string fields
StrOr(seg, a, b, d) ==
    IF TruthyStr(seg, a) THEN seg[a]
    ELSE IF TruthyStr(seg, b) THEN seg[b]
    ELSE d

\* A plausible slip: the alternate field names are not consulted.
NormalizeSegmentCanonicalOnly(seg) ==
    [start   |-> NumOr(seg, "start", "start", 0),
     end     |-> NumOr(seg, "end", "end", 0),
     title   |-> StrOr(seg, "title", "title", "Untitled Segment"),
     summary |-> StrOr(seg, "summary", "summary", "")]

\* segments.map(seg => ({start: ..., end: ..., title: ..., summary: ...}))
NormalizeSegment(seg) ==
    [start   |-> NumOr(seg, "start", "startTime", 0),
     end     |-> NumOr(seg, "end", "endTime", 0),
     title   |-> StrOr(seg, "title", "name", "Untitled Segment"),
     summary |-> StrOr(seg, "summary", "summary", "")]

NormalizeSegments(segments) ==
    [i \in 1..Len(segments) |-> NormalizeSegment(segments[i])]

\* fullAiData || {}     ("null" is null/undefined, "{}" the empty object)
MetaOrEmpty(fullAiData) == IF fullAiData = "null" THEN "{}" ELSE fullAiData

(***************************************************************************)
(* Input domains.                                                          *)
(***************************************************************************)
OptField(name, values) ==
    {[x \in {} |-> 0]} \cup {[x \in {name} |-> v] : v \in values}

\* Merge two records with disjoint domains.
Merge(f, g) ==
    [x \in (DOMAIN f) \cup (DOMAIN g) |-> IF x \in DOMAIN f THEN f[x] ELSE g[x]]

RECURSIVE MergeAll(_)
MergeAll(fs) ==
    IF Len(fs) = 0 THEN [x \in {} |-> 0]
    ELSE IF Len(fs) = 1 THEN fs[1]
    ELSE Merge(fs[1], MergeAll(Tail(fs)))

\* Every raw segment over the seven field names, each field missing, falsy
\* or truthy.
RawSegments ==
    {MergeAll(<<a, b, c, d, e, f, g>>) :
        a \in OptField("start", {0, 5}),
        b \in OptField("startTime", {0, 7}),
        c \in OptField("end", {0, 30}),
        d \in OptField("endTime", {0, 40}),
        e \in OptField("title", {"", "Intro"}),
        f \in OptField("name", {"", "Body"}),
        g \in OptField("summary", {"", "Sum"})}

\* The same segment written with the alternate field names.
AltName(f) ==
    CASE f = "start" -> "startTime"
      [] f = "end" -> "endTime"
      [] f = "title" -> "name"
      [] OTHER -> f

CanonName(f) ==
    CASE f = "startTime" -> "start"
      [] f = "endTime" -> "end"
      [] f = "name" -> "title"
      [] OTHER -> f

OnlyCanonical(seg) == DOMAIN seg \subseteq {"start", "end", "title", "summary"}

ToAlternate(seg) ==
    [f \in {AltName(x) : x \in DOMAIN seg} |-> seg[CanonName(f)]]

(***************************************************************************)
(* Identifiers and requests.                                               *)
(***************************************************************************)
UserIds == {"u1", "u2"}

\* Courses of the store; "C9" names no course.
CourseIds == {"C1", "C2"}

Reqs == {"r1", "r2"}

Hooks == {"w1", "w2"}

Procs == Reqs \cup Hooks

S1 == <<[start |-> 0, end |-> 30, title |-> "Intro"]>>

S2 == <<[startTime |-> 30, endTime |-> 60, name |-> "Body", summary |-> "Sum"],
        [start |-> 60]>>

\* Bodies of POST /upload/complete; "" is a missing (falsy) field.
CompleteRequests ==
    {[userId |-> "u1", lectureId |-> "L1", videoKey |-> "k1", lectureTitle |-> "Intro", courseId |-> "C1"],
     [userId |-> "u1", lectureId |-> "L2", videoKey |-> "k2", lectureTitle |-> "",      courseId |-> "C1"],
     [userId |-> "u2", lectureId |-> "L1", videoKey |-> "k3", lectureTitle |-> "Other", courseId |-> "C2"],
     [userId |-> "u2", lectureId |-> "L1", videoKey |-> "k1", lectureTitle |-> "Intro", courseId |-> "C1"],
     [userId |-> "u1", lectureId |-> "L1", videoKey |-> "k1", lectureTitle |-> "Intro", courseId |-> "C9"],
     [userId |-> "u1", lectureId |-> "L1", videoKey |-> "",   lectureTitle |-> "Intro", courseId |-> "C1"]}

\* Bodies of POST /upload/segmentation-complete; a body may lack segments or
\* rawAiMetaData.
WebhookRequests ==
    {[lectureId |-> "L1", courseId |-> "C1", segments |-> S1, rawAiMetaData |-> "M1"],
     [lectureId |-> "L1", courseId |-> "C1", segments |-> S2],
     [lectureId |-> "L2", courseId |-> "C9", segments |-> S1, rawAiMetaData |-> "M1"],
     [lectureId |-> "L1", courseId |-> "C2", segments |-> S1, rawAiMetaData |-> "M1"],
     [lectureId |-> "L1", courseId |-> "C1", rawAiMetaData |-> "M1"],
     [lectureId |-> "",   courseId |-> "C1", segments |-> S1]}

\* Answers of POST /api/index-video (the response data).
IndexResponses ==
    {[task_id |-> "t1", status |-> "started"],
     [taskId |-> "t1", status |-> "started"],
     [status |-> "started"]}

\* Answers of POST /api/segment-video (the response data).
SegmentResponses ==
    {[status |-> "success", segments |-> S1, rawAiMetaData |-> "M1"],
     [status |-> "success"],
     [status |-> "error"]}

(***************************************************************************)
(* tryFlask: up to retries + 1 attempts, the first success is returned.    *)
(***************************************************************************)
AttemptOutcomes == [1..(DefaultRetries + 1) -> {"ok", "fail"}]

RECURSIVE TryFlaskFrom(_, _, _, _)
TryFlaskFrom(outcomes, i, retries, delays) ==
    IF i > retries
    THEN [result |-> "null", attempts |-> i, delays |-> delays]
    ELSE IF outcomes[i + 1] = "ok"
         THEN [result |-> "ok", attempts |-> i + 1, delays |-> delays]
         ELSE TryFlaskFrom(outcomes, i + 1, retries,
                           IF i < retries THEN delays + 1 ELSE delays)

TryFlask(outcomes) == TryFlaskFrom(outcomes, 0, DefaultRetries, 0)

\* What tryFlask can answer, over every pattern of failing attempts.
TryFlaskResults == {TryFlask(outcomes) : outcomes \in AttemptOutcomes}

\* indexResp.data.task_id || indexResp.task_id || null
TaskIdOf(indexResp) ==
    IF "task_id" \in DOMAIN indexResp /\ indexResp.task_id # ""
    THEN indexResp.task_id
    ELSE "null"

(***************************************************************************)
(* Lectures inside a document.                                             *)
(***************************************************************************)
\* lectures.findIndex(l => l.lectureId === lectureId), 1-based; 0 is "-1".
RECURSIVE FindIndexFrom(_, _, _)
FindIndexFrom(lectures, lectureId, i) ==
    IF i > Len(lectures) THEN 0
    ELSE IF lectures[i].lectureId = lectureId THEN i
    ELSE FindIndexFrom(lectures, lectureId, i + 1)

FindIndex(lectures, lectureId) == FindIndexFrom(lectures, lectureId, 1)

GetVideoUrl(videoKey) == <<"videoUrl", videoKey>>

\* createdAt: new Date().  Every request reads the clock at an instant of
\* its own; the stored lectures are older.
NewDate(r) == IF r = "r1" THEN 1 ELSE 2

\* const lectureData = {...}: segments is never assigned before the upsert,
\* so lectureSegments is undefined (stored as the empty list).
LectureData(req, now) ==
    [lectureId |-> req.lectureId,
     lectureTitle |-> IF req.lectureTitle # "" THEN req.lectureTitle ELSE "Untitled Lecture",
     courseId |-> req.courseId,
     videoUrl |-> GetVideoUrl(req.videoKey),
     createdAt |-> now,
     studentRewindEvents |-> <<>>,
     lectureSegments |-> <<>>,
     rawAiMetaData |-> MetaOrEmpty("null")]

\* A plausible slip: the stored segments and rewind events survive a re-upload.
UpsertLectureKeepingHistory(lectures, lectureData) ==
    LET i == FindIndex(lectures, lectureData.lectureId) IN
    IF i > 0
    THEN [lectures EXCEPT ![i] =
            [lectureData EXCEPT !.lectureSegments = lectures[i].lectureSegments,
                                !.studentRewindEvents = lectures[i].studentRewindEvents]]
    ELSE Append(lectures, lectureData)

\* A plausible slip: the lecture is pushed without looking for its lectureId.
UpsertLectureAlwaysPush(lectures, lectureData) == Append(lectures, lectureData)

\* Object.assign(lectures[i], lectureData) or lectures.push(lectureData)
UpsertLecture(lectures, lectureData) ==
    LET i == FindIndex(lectures, lectureData.lectureId) IN
    IF i > 0 THEN [lectures EXCEPT ![i] = lectureData]
    ELSE Append(lectures, lectureData)

\* A plausible slip: the new segments are added to the stored ones.
SetSegmentsAppending(lectures, lectureId, lectureSegments, fullAiData) ==
    LET i == FindIndex(lectures, lectureId) IN
    IF i > 0
    THEN [lectures EXCEPT ![i].lectureSegments = @ \o lectureSegments,
                          ![i].rawAiMetaData = MetaOrEmpty(fullAiData)]
    ELSE lectures

\* lectures[i].lectureSegments = lectureSegments;
\* lectures[i].rawAiMetaData = fullAiData || {}
SetSegments(lectures, lectureId, lectureSegments, fullAiData) ==
    LET i == FindIndex(lectures, lectureId) IN
    IF i > 0
    THEN [lectures EXCEPT ![i].lectureSegments = lectureSegments,
                          ![i].rawAiMetaData = MetaOrEmpty(fullAiData)]
    ELSE lectures

(***************************************************************************)
(* State.                                                                  *)
(***************************************************************************)
VARIABLES
    courses,     \* Course collection: courseId -> [instructorId, lectures]
    lecturers,   \* Lecturer collection: userId -> [exists, lectures]
    cu,          \* POST /upload/complete handlers, one per request
    seg,         \* the un-awaited POST /api/segment-video call of each request
    ap,          \* updateLectureWithSegments invocations (webhooks and continuations)
    hook,        \* POST /upload/segmentation-complete handlers
    opsStarted,  \* invocations started so far (also the clock of new Date())
    failures,    \* store or signing failures injected so far
    uploaded,    \* <<lectureId, courseId>> answered with indexingInProgress = true
    staleSaves,  \* whether a save has overwritten a document changed since it was loaded
    solo,        \* the request that has run with no other activity since it began
                 \* (an updater started that way remembers the store in "before")
    normIn,      \* input of the normalization run
    normOut,     \* its output
    normDone,
    url,         \* the last POST /upload/presigned-url or GET /upload/stream/:videoKey
    tf,          \* a run of tryFlask
    fc,          \* a call through the axios instance "flask"
    conn,        \* connectDB: the cached connection and its callers
    auth,        \* the users and the last signup or signin
    quiz,        \* QuizDisplay
    chat,        \* ChatBox
    sc           \* the last GET /students/:userId/courses

vars == <<courses, lecturers, cu, seg, ap, hook, opsStarted, failures,
          uploaded, staleSaves, solo, normIn, normOut, normDone, url, tf,
          fc, conn, auth, quiz, chat, sc>>

normVars == <<normIn, normOut, normDone>>

\* The other components of the application.
sideVars == <<fc, conn, auth, quiz, chat, sc>>

urlVars == <<url, tf, sideVars>>

workflowVars == <<courses, lecturers, cu, seg, ap, hook, opsStarted, failures,
                  uploaded, staleSaves, solo>>

NoCourse == [instructorId |-> "", lectures |-> <<>>]

NoLecturer == [exists |-> FALSE, lectures |-> <<>>]

NoRequest ==
    [userId |-> "", lectureId |-> "", videoKey |-> "", lectureTitle |-> "", courseId |-> ""]

\* tryFlask returned null for index-video, or index-video was not called.
NoIndexResponse == [status |-> "null"]

IdleComplete ==
    [pc |-> "idle", req |-> NoRequest, course |-> NoCourse, lecturer |-> NoLecturer,
     data |-> LectureData(NoRequest, 0), taskId |-> "null", status |-> 0,
     indexing |-> FALSE, health |-> "none", sent |-> {}, signed |-> {}, saves |-> 0,
     envFail |-> FALSE, saveFailed |-> FALSE, indexResp |-> NoIndexResponse]

IdleUpdate ==
    [pc |-> "idle", lectureId |-> "", courseId |-> "", segments |-> <<>>,
     lectureSegments |-> <<>>, fullAiData |-> "null", course |-> NoCourse,
     todo |-> <<>>, saves |-> 0, failed |-> FALSE, saveFailed |-> FALSE,
     before |-> <<>>]

\* No URL route has answered yet.
IdleUrl ==
    [route |-> "none", req |-> <<>>, bucket |-> "", status |-> 0, key |-> <<>>,
     signed |-> {}, expiresIn |-> 0]

\* tryFlask has not been called.
IdleTryFlask ==
    [pc |-> "idle", label |-> "", retries |-> 0, delayMs |-> 0, i |-> 0,
     attempts |-> 0, waited |-> 0, outcomes |-> <<>>, result |-> "pending"]

IdleHook ==
    [pc |-> "idle", req |-> [lectureId |-> "", courseId |-> ""], status |-> 0,
     afterUpload |-> FALSE]

\* Stored lectures before the behaviour starts: earlier uploads of L0 and L1
\* into course C1, L1 already segmented and watched by students.
OldSegments == <<[start |-> 1, end |-> 2, title |-> "Old", summary |-> "o"]>>

OldLecture(lectureId, segments, events) ==
    [lectureId |-> lectureId, lectureTitle |-> "Old title", courseId |-> "C1",
     videoUrl |-> GetVideoUrl("k0"), createdAt |-> 0,
     studentRewindEvents |-> events, lectureSegments |-> segments,
     rawAiMetaData |-> "M0"]

OldLectures == <<OldLecture("L0", <<>>, <<>>), OldLecture("L1", OldSegments, <<"e1">>)>>

InstructorOf(courseId) == IF courseId = "C1" THEN "u1" ELSE "u2"

\* The store the behaviours start from: course C1 and its instructor's
\* aggregate hold the same two lectures, course C2 is empty and its
\* instructor has no aggregate yet.
InitialStores ==
    {[courses |-> [c \in CourseIds |->
                      [instructorId |-> InstructorOf(c),
                       lectures |-> IF c = "C1" THEN OldLectures ELSE <<>>]],
      lecturers |-> [u \in UserIds |->
                      IF u = "u1" THEN [exists |-> TRUE, lectures |-> OldLectures]
                      ELSE NoLecturer]]}

\* No call through the axios instance has been made.
IdleFlaskCall == [pc |-> "idle"]

\* GET /students/:userId/courses has not been asked.
IdleStudentCourses == [status |-> 0, userId |-> "", read |-> <<>>, lectures |-> <<>>]

\* The concurrent callers of connectDB.
Callers == {"a", "b", "c"}

\* cached = { conn: null, promise: null }, no caller yet.
IdleConnect ==
    [booted |-> FALSE, cachedConn |-> FALSE, cachedPromise |-> 0, readyState |-> 0,
     attempts |-> <<>>, pc |-> [c \in Callers |-> "idle"],
     awaits |-> [c \in Callers |-> 0]]

\* Two requests to the auth routes may overlap.
AuthHandlers == {"h1", "h2"}

\* The user registered before the behaviour starts.
RegisteredUser == [email |-> "ann@x.io", password |-> "p1", role |-> "student"]

NoUser == [email |-> "", password |-> "", role |-> ""]

IdleAuth ==
    [users |-> {RegisteredUser},
     h |-> [k \in AuthHandlers |->
              [pc |-> "idle", kind |-> "", req |-> NoUser, user |-> NoUser,
               status |-> 0, cookie |-> "", stored |-> FALSE]]]

\* The chat sessions of the user.
ChatSessions == {"s1", "s2"}

\* What the server holds for each session before the behaviour starts.
StoredHistory ==
    [session \in ChatSessions |->
        <<[role |-> "user", session |-> session, n |-> 0],
          [role |-> "assistant", session |-> session, n |-> 0]>>]

\* useState([]), useState(null): nothing displayed, no active session.
IdleChat ==
    [active |-> "none", messages |-> <<>>, sends |-> 0,
     send |-> [pc |-> "idle"], hist |-> [pc |-> "idle"], stored |-> StoredHistory]

InitSide ==
    /\ fc = IdleFlaskCall
    /\ conn = IdleConnect
    /\ auth = IdleAuth
    /\ quiz = [mounted |-> FALSE]
    /\ chat = IdleChat
    /\ sc = IdleStudentCourses

InitProgram ==
    /\ \E st \in InitialStores : courses = st.courses /\ lecturers = st.lecturers
    /\ cu = [r \in Reqs |-> IdleComplete]
    /\ seg = [r \in Reqs |-> "none"]
    /\ ap = [p \in Procs |-> IdleUpdate]
    /\ hook = [w \in Hooks |-> IdleHook]
    /\ opsStarted = 0
    /\ failures = 0
    /\ uploaded = {}
    /\ staleSaves = FALSE
    /\ solo = "none"
    /\ url = IdleUrl

Init ==
    /\ InitProgram
    /\ normIn = <<>> /\ normOut = <<>> /\ normDone = TRUE
    /\ tf = IdleTryFlask
    /\ InitSide

(***************************************************************************)
(* Scheduling helpers.                                                     *)
(***************************************************************************)
Running(pc) == pc \notin {"idle", "done"}

AnyRunning ==
    \/ \E r \in Reqs : Running(cu[r].pc)
    \/ \E p \in Procs : Running(ap[p].pc)

\* Another operation starts: no updater has the store to itself any more,
\* and the store it started from is forgotten.
NotAlone(a) == [p \in DOMAIN a |-> [a[p] EXCEPT !.before = <<>>]]

\* Requests take their identifiers in order.
MayStartReq(r) == r = "r1" \/ cu["r1"].pc # "idle"

MayStartHook(w) == w = "w1" \/ hook["w1"].pc # "idle"

\* Whether the next store, connection or signing operation may fail.
Outcomes == IF failures < MaxFailures THEN {TRUE, FALSE} ELSE {TRUE}

Spend(ok) == failures' = IF ok THEN failures ELSE failures + 1

\* A handler that has answered keeps only what it answered.
Answered(c, status) ==
    [c EXCEPT !.pc = "done", !.status = status, !.course = NoCourse,
              !.lecturer = NoLecturer, !.data = LectureData(NoRequest, 0)]

(***************************************************************************)
(* POST /upload/complete                                                   *)
(***************************************************************************)
\* if (!userId || !lectureId || !videoKey || !courseId)
FieldsMissing(req) ==
    req.userId = "" \/ req.lectureId = "" \/ req.videoKey = "" \/ req.courseId = ""

\* A plausible slip: videoKey is not among the required fields.
PrecheckNoVideoKey(req, connected, signedOk) ==
    IF req.userId = "" \/ req.lectureId = "" \/ req.courseId = "" THEN 400
    ELSE IF ~connected THEN 500
    ELSE IF req.courseId \notin DOMAIN courses THEN 404
    ELSE IF courses[req.courseId].instructorId # req.userId THEN 403
    ELSE IF ~signedOk THEN 500
    ELSE 0

\* A plausible slip: the ownership check is left out.
PrecheckNoOwnership(req, connected, signedOk) ==
    IF FieldsMissing(req) THEN 400
    ELSE IF ~connected THEN 500
    ELSE IF req.courseId \notin DOMAIN courses THEN 404
    ELSE IF ~signedOk THEN 500
    ELSE 0

\* The checks before the AI service is contacted: required fields, the
\* database connection, the course and its owner, the signed download URL.
\* The answer is the HTTP status of the early return, or 0 to go on.
Precheck(req, connected, signedOk) ==
    IF FieldsMissing(req) THEN 400
    ELSE IF ~connected THEN 500
    ELSE IF req.courseId \notin DOMAIN courses THEN 404
    ELSE IF courses[req.courseId].instructorId # req.userId THEN 403
    ELSE IF ~signedOk THEN 500
    ELSE 0

\* const course = await Course.findOne({ courseId }) finds a course of the caller.
OwnsCourse(req) ==
    /\ req.courseId \in DOMAIN courses
    /\ courses[req.courseId].instructorId = req.userId

\* A plausible slip: indexing is attempted although the health check failed.
FlaskIntegrationIgnoringHealth(health, index, indexResp) ==
    LET taskId == IF index.result = "ok" THEN TaskIdOf(indexResp) ELSE "null"
    IN  [taskId |-> taskId, thrown |-> FALSE,
         sent |-> {"health", "index"} \cup (IF taskId # "null" THEN {"segment"} ELSE {})]

\* A plausible slip: an unreachable AI service is reported as an error.
FlaskIntegrationThrowing(health, index, indexResp) ==
    LET taskId == IF health.result = "ok" /\ index.result = "ok"
                  THEN TaskIdOf(indexResp) ELSE "null"
    IN  [taskId |-> taskId,
         thrown |-> health.result # "ok" \/ index.result # "ok",
         sent |-> {"health"} \cup (IF health.result = "ok" THEN {"index"} ELSE {})
                             \cup (IF taskId # "null" THEN {"segment"} ELSE {})]

\* C. Flask Integration: health check, index-video, and the segment-video
\* call that is issued and not awaited.  The answer names the task id
\* ("null" when there is none), the requests sent, and whether an error
\* escaped to the handler's catch.
FlaskIntegration(health, index, indexResp) ==
    LET taskId == IF health.result = "ok" /\ index.result = "ok"
                  THEN TaskIdOf(indexResp) ELSE "null"
    IN  [taskId |-> taskId,
         thrown |-> FALSE,
         sent |-> {"health"} \cup (IF health.result = "ok" THEN {"index"} ELSE {})
                             \cup (IF taskId # "null" THEN {"segment"} ELSE {})]

\* The handler up to its first await of a save: the checks, then the AI
\* service (health, index-video, the un-awaited segment-video).
Complete_Start(r) ==
    /\ cu[r].pc = "idle"
    /\ MayStartReq(r)
    /\ opsStarted < MaxOps
    /\ \E req \in CompleteRequests, connected \in Outcomes, signedOk \in Outcomes :
         LET status == Precheck(req, connected, signedOk)
             signing == status \in {0, 500} /\ connected
             envFail == status = 500
             c0 == [cu[r] EXCEPT !.req = req, !.envFail = envFail,
                                 !.signed = IF signing THEN {ExpiresIn} ELSE {}]
         IN  /\ failures' = IF envFail THEN failures + 1 ELSE failures
             /\ IF status # 0
                THEN /\ cu' = [cu EXCEPT ![r] = Answered(c0, status)]
                     /\ seg' = seg
                ELSE \E health \in TryFlaskResults :
                     \E index \in (IF health.result = "ok" THEN TryFlaskResults ELSE {health}) :
                     \E resp \in (IF index.result = "ok" THEN IndexResponses
                                  ELSE {[status |-> "started"]}) :
                       LET plan == FlaskIntegration(health, index, resp)
                           c1 == [c0 EXCEPT !.taskId = plan.taskId, !.sent = plan.sent,
                                            !.health = health.result,
                                            !.indexResp =
                                                IF health.result = "ok" /\ index.result = "ok"
                                                THEN resp ELSE NoIndexResponse]
                       IN  /\ cu' = [cu EXCEPT ![r] =
                                       IF plan.thrown THEN Answered(c1, 500)
                                       ELSE [c1 EXCEPT !.pc = "saveCourse",
                                                       !.course = courses[req.courseId]]]
                           /\ seg' = [seg EXCEPT ![r] =
                                       IF "segment" \in plan.sent THEN "pending" ELSE "none"]
    /\ opsStarted' = opsStarted + 1
    /\ solo' = IF AnyRunning THEN "none" ELSE r
    /\ ap' = NotAlone(ap)
    /\ UNCHANGED <<courses, lecturers, hook, uploaded, staleSaves, normVars, urlVars>>

\* A plausible slip: the segment-video call is awaited.
SegmentationAwaited == TRUE

\* Whether the handler waits for the segment-video call before going on:
\* flask.post('/api/segment-video', ...).then(...) is not awaited.
SegmentationJoined == FALSE

\* D. Update Course Model: the document loaded by the permission check is
\* changed and saved whole.
Complete_SaveCourse(r) ==
    /\ cu[r].pc = "saveCourse"
    /\ SegmentationJoined => seg[r] # "pending"
    /\ \E ok \in Outcomes :
         LET c == cu[r]
             data == LectureData(c.req, NewDate(r))
             doc == [c.course EXCEPT !.lectures = UpsertLecture(@, data)]
         IN  /\ Spend(ok)
             /\ IF ok
                THEN /\ courses' = [courses EXCEPT ![c.req.courseId] = doc]
                     /\ staleSaves' = (staleSaves \/ c.course # courses[c.req.courseId])
                     /\ cu' = [cu EXCEPT ![r] =
                                 [c EXCEPT !.pc = "findLecturer", !.course = NoCourse,
                                           !.data = data, !.saves = @ + 1]]
                ELSE /\ courses' = courses
                     /\ staleSaves' = staleSaves
                     /\ cu' = [cu EXCEPT ![r] =
                                 Answered([c EXCEPT !.envFail = TRUE, !.saveFailed = TRUE], 500)]
    /\ UNCHANGED <<lecturers, seg, ap, hook, opsStarted, uploaded, solo, normVars, urlVars>>

\* E. Update Lecturer Model: Lecturer.findOne({ userId }).
Complete_FindLecturer(r) ==
    /\ cu[r].pc = "findLecturer"
    /\ cu' = [cu EXCEPT ![r] = [cu[r] EXCEPT !.pc = "saveLecturer",
                                             !.lecturer = lecturers[cu[r].req.userId]]]
    /\ UNCHANGED <<courses, lecturers, seg, ap, hook, opsStarted, failures,
                   uploaded, staleSaves, solo, normVars, urlVars>>

\* A plausible slip: the flag only looks at the (always empty) segment list.
IndexingInProgressNoTask(taskId, segments) == Len(segments) = 0

\* indexingInProgress: !!taskIdFromTask && segments.length === 0
IndexingInProgress(taskId, segments) == taskId # "null" /\ Len(segments) = 0

\* The upsert into the loaded (or new) Lecturer document, await
\* lecturer.save(), then the success response.
Complete_SaveLecturer(r) ==
    /\ cu[r].pc = "saveLecturer"
    /\ \E ok \in Outcomes :
         LET c == cu[r]
             doc == IF ~c.lecturer.exists
                    THEN [exists |-> TRUE, lectures |-> <<c.data>>]
                    ELSE [c.lecturer EXCEPT !.lectures = UpsertLecture(@, c.data)]
             indexing == IndexingInProgress(c.taskId, <<>>)
         IN  /\ Spend(ok)
             /\ IF ok
                THEN /\ lecturers' = [lecturers EXCEPT ![c.req.userId] = doc]
                     /\ staleSaves' = (staleSaves \/ c.lecturer # lecturers[c.req.userId])
                     /\ cu' = [cu EXCEPT ![r] =
                                 Answered([c EXCEPT !.saves = @ + 1,
                                                    !.indexing = indexing], 200)]
                     /\ uploaded' = IF indexing
                                    THEN uploaded \cup {<<c.req.lectureId, c.req.courseId>>}
                                    ELSE uploaded
                ELSE /\ lecturers' = lecturers
                     /\ staleSaves' = staleSaves
                     /\ cu' = [cu EXCEPT ![r] =
                                 Answered([c EXCEPT !.envFail = TRUE, !.saveFailed = TRUE], 500)]
                     /\ uploaded' = uploaded
    /\ UNCHANGED <<courses, seg, ap, hook, opsStarted, solo, normVars, urlVars>>

(***************************************************************************)
(* updateLectureWithSegments                                               *)
(***************************************************************************)
\* A plausible slip: the segments are stored as they were received.
BeginUpdateRaw(lectureId, courseId, segments, fullAiData) ==
    [pc |-> "findCourse", lectureId |-> lectureId, courseId |-> courseId,
     segments |-> segments, lectureSegments |-> segments, fullAiData |-> fullAiData,
     course |-> [instructorId |-> "", lectures |-> <<>>], todo |-> <<>>,
     saves |-> 0, failed |-> FALSE, saveFailed |-> FALSE, before |-> <<>>]

\* The invocation's arguments, with the segments normalized.
BeginUpdate(lectureId, courseId, segments, fullAiData) ==
    [IdleUpdate EXCEPT !.pc = "findCourse", !.lectureId = lectureId,
                       !.courseId = courseId, !.segments = segments,
                       !.lectureSegments = NormalizeSegments(segments),
                       !.fullAiData = fullAiData]

\* The invocation has returned (errors are caught and logged inside it).
EndUpdate(a, failed) ==
    [a EXCEPT !.pc = "done", !.course = NoCourse, !.todo = <<>>, !.failed = failed]

\* The webhook handler answers 200 as soon as its updater invocation returns.
HookAfter(p, returned) ==
    IF returned /\ p \in Hooks
    THEN [hook EXCEPT ![p].pc = "done", ![p].status = 200]
    ELSE hook

\* The orders in which Lecturer.find may return the matching documents.
Orders(S) ==
    {q \in [1..Cardinality(S) -> S] : \A i, j \in 1..Cardinality(S) : q[i] = q[j] => i = j}

\* A plausible slip: the updater gives up when the course has no such lecture.
AfterCourseWithoutLectureReturn == "done"

\* Where the updater goes on when the course is not found or has no such
\* lecture: both ifs are skipped and Lecturer.find comes next.
AfterCourseWithoutLecture == "findLecturers"

\* Connect if needed, then Course.findOne({ courseId }) and the search for
\* the lecture in it.
Update_FindCourse(p) ==
    /\ ap[p].pc = "findCourse"
    /\ \E connected \in Outcomes :
         LET a == ap[p]
             found == a.courseId \in DOMAIN courses
             i == IF found THEN FindIndex(courses[a.courseId].lectures, a.lectureId) ELSE 0
         IN  /\ Spend(connected)
             /\ ap' = [ap EXCEPT ![p] =
                         IF ~connected THEN EndUpdate(a, TRUE)
                         ELSE IF i > 0
                              THEN [a EXCEPT !.pc = "saveCourse",
                                             !.course = courses[a.courseId]]
                              ELSE [a EXCEPT !.pc = AfterCourseWithoutLecture]]
             /\ hook' = HookAfter(p, ~connected)
    /\ UNCHANGED <<courses, lecturers, cu, seg, opsStarted, uploaded, staleSaves,
                   solo, normVars, urlVars>>

\* A plausible slip: a save that throws has written the document all the same.
FailedSaveWrites(stored, doc) == doc

\* The stored document after a save() that threw: nothing was written.
FailedSave(stored, doc) == stored

\* The change of the loaded course and await course.save()
Update_SaveCourse(p) ==
    /\ ap[p].pc = "saveCourse"
    /\ \E ok \in Outcomes :
         LET a == ap[p]
             doc == [a.course EXCEPT
                       !.lectures = SetSegments(@, a.lectureId, a.lectureSegments, a.fullAiData)]
         IN  /\ Spend(ok)
             /\ courses' = [courses EXCEPT ![a.courseId] =
                            IF ok THEN doc ELSE FailedSave(@, doc)]
             /\ staleSaves' = (staleSaves \/ (ok /\ a.course # courses[a.courseId]))
             /\ ap' = [ap EXCEPT ![p] =
                         IF ok THEN [a EXCEPT !.pc = "findLecturers", !.course = NoCourse,
                                              !.saves = @ + 1]
                         ELSE EndUpdate([a EXCEPT !.saveFailed = TRUE], TRUE)]
             /\ hook' = HookAfter(p, ~ok)
    /\ UNCHANGED <<lecturers, cu, seg, opsStarted, uploaded, solo, normVars, urlVars>>

\* Lecturer.find({ 'lectures.lectureId': lectureId })
Update_FindLecturers(p) ==
    /\ ap[p].pc = "findLecturers"
    /\ LET a == ap[p]
           matching == {u \in UserIds : /\ lecturers[u].exists
                                        /\ FindIndex(lecturers[u].lectures, a.lectureId) > 0}
       IN  \E order \in Orders(matching) :
             LET todo == [i \in 1..Len(order) |->
                            [userId |-> order[i], doc |-> lecturers[order[i]]]]
             IN  /\ ap' = [ap EXCEPT ![p] =
                             IF Len(todo) = 0 THEN EndUpdate(a, FALSE)
                             ELSE [a EXCEPT !.pc = "saveLecturer", !.todo = todo]]
                 /\ hook' = HookAfter(p, Len(todo) = 0)
    /\ UNCHANGED <<courses, lecturers, cu, seg, opsStarted, failures, uploaded, staleSaves,
                   solo, normVars, urlVars>>

\* One round of the loop: the loaded document is changed and saved.
Update_SaveLecturer(p) ==
    /\ ap[p].pc = "saveLecturer"
    /\ \E ok \in Outcomes :
         LET a == ap[p]
             userId == Head(a.todo).userId
             doc == [Head(a.todo).doc EXCEPT
                       !.lectures = SetSegments(@, a.lectureId, a.lectureSegments, a.fullAiData)]
             last == Len(a.todo) = 1
         IN  /\ Spend(ok)
             /\ lecturers' = [lecturers EXCEPT ![userId] =
                                IF ok THEN doc ELSE FailedSave(@, doc)]
             /\ staleSaves' = (staleSaves \/ (ok /\ Head(a.todo).doc # lecturers[userId]))
             /\ ap' = [ap EXCEPT ![p] =
                         IF ~ok THEN EndUpdate([a EXCEPT !.saveFailed = TRUE], TRUE)
                         ELSE IF last THEN EndUpdate([a EXCEPT !.saves = @ + 1], FALSE)
                         ELSE [a EXCEPT !.todo = Tail(@), !.saves = @ + 1]]
             /\ hook' = HookAfter(p, ~ok \/ last)
    /\ UNCHANGED <<courses, cu, seg, opsStarted, uploaded, solo, normVars, urlVars>>

(***************************************************************************)
(* The continuation of the un-awaited segment-video call.                  *)
(***************************************************************************)
\* segResp.data?.segments || []
SegmentsOf(resp) == IF "segments" \in DOMAIN resp THEN resp.segments ELSE <<>>

\* rawAiMetaData || null
MetaOf(resp) == IF "rawAiMetaData" \in DOMAIN resp THEN resp.rawAiMetaData ELSE "null"

\* .then(segResp => ...): a success starts updateLectureWithSegments, any
\* other status is logged.
SegmentVideo_Resolve(r) ==
    /\ seg[r] = "pending"
    /\ \E resp \in SegmentResponses :
         IF resp.status = "success"
         THEN /\ opsStarted < MaxOps
              /\ opsStarted' = opsStarted + 1
              /\ seg' = [seg EXCEPT ![r] = "success"]
              /\ ap' = [p \in Procs |->
                          IF p = r
                          THEN BeginUpdate(cu[r].req.lectureId, cu[r].req.courseId,
                                           SegmentsOf(resp), MetaOf(resp))
                          ELSE NotAlone(ap)[p]]
         ELSE /\ opsStarted' = opsStarted
              /\ seg' = [seg EXCEPT ![r] = "failed"]
              /\ ap' = NotAlone(ap)
    /\ solo' = "none"
    /\ UNCHANGED <<courses, lecturers, cu, hook, failures, uploaded, staleSaves, normVars, urlVars>>

\* A plausible slip: a failed call still runs the updater, with no segments.
SegmentVideo_RejectStartsUpdater(r) ==
    /\ seg[r] = "pending"
    /\ seg' = [seg EXCEPT ![r] = "failed"]
    /\ ap' = [ap EXCEPT ![r] = BeginUpdate(cu[r].req.lectureId, cu[r].req.courseId,
                                           <<>>, "null")]
    /\ UNCHANGED <<courses, lecturers, cu, hook, opsStarted, failures,
                   uploaded, staleSaves, solo, normVars, urlVars>>

\* .catch(segErr => ...): the call failed (connection error, timeout, 5xx).
SegmentVideo_Reject(r) ==
    /\ seg[r] = "pending"
    /\ seg' = [seg EXCEPT ![r] = "failed"]
    /\ UNCHANGED <<courses, lecturers, cu, ap, hook, opsStarted, failures,
                   uploaded, staleSaves, solo, normVars, urlVars>>

(***************************************************************************)
(* POST /upload/segmentation-complete                                      *)
(***************************************************************************)
\* if (!lectureId || !segments) return 400
WebhookStatus(req) ==
    IF req.lectureId = "" \/ "segments" \notin DOMAIN req THEN 400 ELSE 0

SegmentationComplete_Start(w) ==
    /\ hook[w].pc = "idle"
    /\ MayStartHook(w)
    /\ opsStarted < MaxOps
    /\ \E req \in WebhookRequests :
         LET h == [hook[w] EXCEPT !.req = [lectureId |-> req.lectureId,
                                           courseId |-> req.courseId]]
         IN  IF WebhookStatus(req) # 0
             THEN /\ hook' = [hook EXCEPT ![w] =
                                [h EXCEPT !.pc = "done", !.status = WebhookStatus(req)]]
                  /\ ap' = NotAlone(ap)
             ELSE /\ hook' = [hook EXCEPT ![w] =
                                [h EXCEPT !.pc = "applying",
                                          !.afterUpload =
                                              <<req.lectureId, req.courseId>> \in uploaded]]
                  /\ ap' = [p \in Procs |->
                              IF p = w
                              THEN [BeginUpdate(req.lectureId, req.courseId, req.segments,
                                                MetaOf(req))
                                      EXCEPT !.before = IF AnyRunning THEN <<>>
                                                        ELSE <<[courses |-> courses,
                                                                lecturers |-> lecturers]>>]
                              ELSE NotAlone(ap)[p]]
    /\ opsStarted' = opsStarted + 1
    /\ solo' = IF AnyRunning THEN "none" ELSE w
    /\ UNCHANGED <<courses, lecturers, cu, seg, failures, uploaded, staleSaves, normVars, urlVars>>

(***************************************************************************)
(* POST /upload/presigned-url                                              *)
(***************************************************************************)
\* The URL routes keep no state: a behaviour follows one request to them.
MayStartUrl == url.route = "none"

\* A filename is the list filename.split('.') gives; '' splits into [''].
Filenames ==
    {<<"video", "mp4">>, <<"video", "MP4">>, <<"notes", "txt">>, <<"mp4">>,
     <<"video", "">>, <<"a", "tar", "mkv">>, <<"">>}

\* Bodies of POST /upload/presigned-url ("" is a missing field).
PresignedUrlRequests ==
    [userId : {"u1", ""}, lectureId : {"L1", ""}, filename : Filenames,
     contentType : {"", "video/quicktime"}]

\* BUCKET_NAME as configured: unset or set.
BucketNames == {"", "videos"}

\* String.prototype.toLowerCase on the strings in use.
ToLowerCase(str) ==
    CASE str = "MP4" -> "mp4"
      [] str = "Ann@X.io" -> "ann@x.io"
      [] OTHER -> str

\* const validExtensions = ['mp4', 'webm', 'mov', 'avi', 'mkv']
ValidExtensions == {"mp4", "webm", "mov", "avi", "mkv"}

\* filename.split('.').pop()?.toLowerCase()
Extension(filename) == ToLowerCase(filename[Len(filename)])

\* generateVideoKey(userId, lectureId, filename): {userId}/{lectureId}/{filename}
GenerateVideoKey(userId, lectureId, filename) == <<userId, lectureId, filename>>

\* getSignedUrl(s3Client, command, { expiresIn: 3600 }) of the upload URL
UploadUrlOptions == [expiresIn |-> 3600]

\* The checks of the handler in their order; 0 is "go on to sign".
PresignedUrlPrecheck(req, bucket) ==
    IF req.userId = "" \/ req.lectureId = "" \/ req.filename = <<"">> THEN 400
    ELSE IF bucket = "" THEN 500
    ELSE IF Extension(req.filename) = ""
            \/ Extension(req.filename) \notin ValidExtensions THEN 400
    ELSE 0

PresignedUrl_Handle ==
    /\ MayStartUrl
    /\ \E req \in PresignedUrlRequests, bucket \in BucketNames, signedOk \in BOOLEAN :
        LET pre == PresignedUrlPrecheck(req, bucket)
            key == GenerateVideoKey(req.userId, req.lectureId, req.filename)
            command == [command |-> "PutObject", bucket |-> bucket, key |-> key,
                        contentType |-> IF req.contentType # "" THEN req.contentType
                                        ELSE <<"video", Extension(req.filename)>>,
                        expiresIn |-> UploadUrlOptions.expiresIn]
        IN  /\ url' = [route |-> "presigned-url", req |-> req, bucket |-> bucket,
                       status |-> IF pre # 0 THEN pre
                                  ELSE IF signedOk THEN 200 ELSE 500,
                       key |-> IF pre = 0 THEN <<key>> ELSE <<>>,
                       signed |-> IF pre = 0 THEN {command} ELSE {},
                       expiresIn |-> 0]
            /\ UNCHANGED <<courses, lecturers, cu, seg, ap, hook, opsStarted, failures,
                           uploaded, staleSaves, solo, normVars, tf, sideVars>>

(***************************************************************************)
(* GET /upload/stream/:videoKey                                            *)
(***************************************************************************)
\* The :videoKey parameter, possibly URL-encoded.
StreamKeys == {"k1", "lost", "u1%2FL1%2Fvideo.mp4", "%E0%A4%A"}

\* The keys the bucket holds an object for.
StoredObjects == {"k1", "u1/L1/video.mp4"}

\* decodeURIComponent on the keys in use; it throws on a malformed escape.
Decodable(str) == str # "%E0%A4%A"

DecodeURIComponent(str) ==
    IF str = "u1%2FL1%2Fvideo.mp4" THEN "u1/L1/video.mp4" ELSE str

\* A plausible slip: the stream URL is signed for a day.
StreamUrlOptionsOneDay == [expiresIn |-> 86400]

\* getSignedUrl(s3Client, command, { expiresIn: 3600 }) of the stream URL
StreamUrlOptions == [expiresIn |-> 3600]

\* The response field expiresIn: 3600
StreamResponseExpiresIn == 3600

\* What getSignedUrl may do: it signs locally and never asks the bucket for
\* the object, so its outcome does not depend on the key being stored.
SignOutcomes == {"ok", "NoSuchKey", "Error"}

\* The catch block: error.name === 'NoSuchKey' is answered 404, the rest 500.
StreamErrorStatus(name) == IF name = "NoSuchKey" THEN 404 ELSE 500

Stream_Handle ==
    /\ MayStartUrl
    /\ \E videoKey \in StreamKeys, bucket \in BucketNames, outcome \in SignOutcomes :
        LET signing == bucket # "" /\ Decodable(videoKey)
            decodedKey == DecodeURIComponent(videoKey)
            command == [command |-> "GetObject", bucket |-> bucket, key |-> decodedKey,
                        expiresIn |-> StreamUrlOptions.expiresIn]
            status == IF bucket = "" THEN 500
                      ELSE IF ~Decodable(videoKey) THEN StreamErrorStatus("URIError")
                      ELSE IF outcome = "ok" THEN 200
                      ELSE StreamErrorStatus(outcome)
        IN  /\ url' = [route |-> "stream", req |-> [videoKey |-> videoKey],
                       bucket |-> bucket, status |-> status,
                       key |-> IF signing THEN <<decodedKey>> ELSE <<>>,
                       signed |-> IF signing THEN {command} ELSE {},
                       expiresIn |-> IF status = 200 THEN StreamResponseExpiresIn ELSE 0]
            /\ UNCHANGED <<courses, lecturers, cu, seg, ap, hook, opsStarted, failures,
                           uploaded, staleSaves, solo, normVars, tf, sideVars>>

(***************************************************************************)
(* The workflow.                                                           *)
(***************************************************************************)
Next ==
    \/ \E r \in Reqs : Complete_Start(r)
    \/ \E r \in Reqs : Complete_SaveCourse(r)
    \/ \E r \in Reqs : Complete_FindLecturer(r)
    \/ \E r \in Reqs : Complete_SaveLecturer(r)
    \/ \E r \in Reqs : SegmentVideo_Resolve(r)
    \/ \E r \in Reqs : SegmentVideo_Reject(r)
    \/ \E w \in Hooks : SegmentationComplete_Start(w)
    \/ \E p \in Procs : Update_FindCourse(p)
    \/ \E p \in Procs : Update_SaveCourse(p)
    \/ \E p \in Procs : Update_FindLecturers(p)
    \/ \E p \in Procs : Update_SaveLecturer(p)

Spec == Init /\ [][Next]_vars

(***************************************************************************)
(* Segment normalization on its own, over every raw segment.               *)
(***************************************************************************)
NormInputs == {<<s>> : s \in RawSegments} \cup {S1, S2, <<>>}

InitNorm ==
    /\ InitProgram
    /\ normIn \in NormInputs /\ normOut = <<>> /\ normDone = FALSE
    /\ tf = IdleTryFlask
    /\ InitSide

Normalize_Run ==
    /\ ~normDone
    /\ normOut' = NormalizeSegments(normIn)
    /\ normDone' = TRUE
    /\ UNCHANGED <<courses, lecturers, cu, seg, ap, hook, opsStarted, failures,
                   uploaded, staleSaves, solo, normIn, urlVars>>

NextNorm == Normalize_Run

SpecNorm == InitNorm /\ [][NextNorm]_vars

(***************************************************************************)
(* The upload requests with their segmentation continuations, under the   *)
(* scheduling Node guarantees: a handler whose awaited store operation has *)
(* completed goes on.  Nothing makes a request arrive, and nothing makes   *)
(* the AI service answer the segment-video call.                           *)
(***************************************************************************)
NextUpload ==
    \/ \E r \in Reqs : Complete_Start(r)
    \/ \E r \in Reqs : Complete_SaveCourse(r)
    \/ \E r \in Reqs : Complete_FindLecturer(r)
    \/ \E r \in Reqs : Complete_SaveLecturer(r)
    \/ \E r \in Reqs : SegmentVideo_Resolve(r)
    \/ \E r \in Reqs : SegmentVideo_Reject(r)
    \/ \E r \in Reqs : Update_FindCourse(r)
    \/ \E r \in Reqs : Update_SaveCourse(r)
    \/ \E r \in Reqs : Update_FindLecturers(r)
    \/ \E r \in Reqs : Update_SaveLecturer(r)

FairSpec ==
    /\ Init /\ [][NextUpload]_vars
    /\ \A r \in Reqs : /\ WF_vars(Complete_SaveCourse(r))
                       /\ WF_vars(Complete_FindLecturer(r))
                       /\ WF_vars(Complete_SaveLecturer(r))

(***************************************************************************)
(* The operations that sign URLs: the two URL routes, and the first part   *)
(* of POST /upload/complete, which signs the download URL for the AI       *)
(* service.                                                                *)
(***************************************************************************)
NextUrls ==
    \/ PresignedUrl_Handle
    \/ Stream_Handle
    \/ \E r \in Reqs : Complete_Start(r)

SpecUrls == Init /\ [][NextUrls]_vars

(***************************************************************************)
(* tryFlask, step by step: each await of fn() and each await of the timer  *)
(* is a step.  The two calls of the program pass neither retries nor       *)
(* delayMs, so they run with the defaults; the function is also run with   *)
(* other retry counts.                                                     *)
(***************************************************************************)
TryFlaskLabels == {"Flask health check", "Indexing trigger"}

RetryCounts == 0..MaxRetries

DelayChoices == {DefaultDelayMs}

\* err.code of a rejected call: unreachable service, or anything else
\* (the 15 s timeout of the axios instance, an error status).
FailureCodes == {"ECONNREFUSED", "ECONNABORTED"}

\* for (let i = 0; i <= retries; i++)
LoopGoesOn(i, retries) == i <= retries

\* A plausible slip: the delay also follows the last attempt.
DelaysAfterEveryFailure(i, retries) == TRUE

\* if (i < retries) await new Promise(r => setTimeout(r, delayMs))
DelaysAfter(i, retries) == i < retries

\* return null, or the next round of the loop.
TryFlaskRound(t, i) ==
    IF LoopGoesOn(i, t.retries)
    THEN [t EXCEPT !.pc = "attempt", !.i = i]
    ELSE [t EXCEPT !.pc = "returned", !.i = i, !.result = "null"]

TryFlask_Call ==
    /\ tf.pc = "idle"
    /\ \E label \in TryFlaskLabels, retries \in RetryCounts, delayMs \in DelayChoices :
         tf' = TryFlaskRound([IdleTryFlask EXCEPT !.label = label, !.retries = retries,
                                                  !.delayMs = delayMs], 0)
    /\ UNCHANGED <<courses, lecturers, cu, seg, ap, hook, opsStarted, failures,
                   uploaded, staleSaves, solo, normVars, url, sideVars>>

\* return await fn(): the call resolved.
TryFlask_Resolve ==
    /\ tf.pc = "attempt"
    /\ tf' = [tf EXCEPT !.pc = "returned", !.result = "ok", !.attempts = @ + 1,
                        !.outcomes = Append(@, "ok")]
    /\ UNCHANGED <<courses, lecturers, cu, seg, ap, hook, opsStarted, failures,
                   uploaded, staleSaves, solo, normVars, url, sideVars>>

\* catch (err): the failure is logged, then the delay or the next round.
TryFlask_Reject ==
    /\ tf.pc = "attempt"
    /\ \E code \in FailureCodes :
         LET t == [tf EXCEPT !.attempts = @ + 1, !.outcomes = Append(@, code)]
         IN  tf' = IF DelaysAfter(tf.i, tf.retries)
                   THEN [t EXCEPT !.pc = "delay"]
                   ELSE TryFlaskRound(t, tf.i + 1)
    /\ UNCHANGED <<courses, lecturers, cu, seg, ap, hook, opsStarted, failures,
                   uploaded, staleSaves, solo, normVars, url, sideVars>>

\* The timer of the delay fires.
TryFlask_Timer ==
    /\ tf.pc = "delay"
    /\ tf' = TryFlaskRound([tf EXCEPT !.waited = @ + tf.delayMs], tf.i + 1)
    /\ UNCHANGED <<courses, lecturers, cu, seg, ap, hook, opsStarted, failures,
                   uploaded, staleSaves, solo, normVars, url, sideVars>>

NextTryFlask ==
    \/ TryFlask_Call
    \/ TryFlask_Resolve
    \/ TryFlask_Reject
    \/ TryFlask_Timer

\* fn() is a call through the axios instance with a 15 s timeout, so it
\* settles; a timer that was set fires.
SpecTryFlask ==
    /\ Init /\ [][NextTryFlask]_vars
    /\ WF_vars(TryFlask_Resolve \/ TryFlask_Reject)
    /\ WF_vars(TryFlask_Timer)

(***************************************************************************)
(* A call through the axios instance "flask", in time: the instance is     *)
(* created with timeout 15000 and no call passes a configuration of its    *)
(* own, so every call is aborted when no answer came within that time.     *)
(***************************************************************************)
FlaskTimeoutMs == 15000

FlaskCalls == {"health", "index", "segment"}

\* The timeout in force for a call: flask.get('/health'),
\* flask.post('/api/index-video', body), flask.post('/api/segment-video', body).
CallTimeoutMs(kind) == FlaskTimeoutMs

\* The instants that are told apart, in ms since the call was sent; the
\* last one is 15 minutes.
Instants == {0, 5000, 10000, 15000, 20000, 900000}

\* When the AI service answers.
AnswerTimes == {5000, 10000, 20000, 900000}

ResponsesOf(kind) ==
    CASE kind = "health" -> {[status |-> "ok"]}
      [] kind = "index" -> IndexResponses
      [] kind = "segment" -> SegmentResponses

NextInstant(t) == CHOOSE u \in Instants : u > t /\ \A v \in Instants : v > t => u <= v

FlaskCall_Send ==
    /\ fc.pc = "idle"
    /\ \E kind \in FlaskCalls, answerAt \in AnswerTimes :
       \E resp \in ResponsesOf(kind) :
         fc' = [pc |-> "pending", kind |-> kind, timeoutMs |-> CallTimeoutMs(kind),
                answerAt |-> answerAt, elapsed |-> 0, resp |-> resp, delivered |-> <<>>,
                error |-> ""]
    /\ UNCHANGED <<workflowVars, normVars, url, tf, conn, auth, quiz, chat, sc>>

\* Time passes while the call is pending.
FlaskCall_Elapse ==
    /\ fc.pc = "pending"
    /\ fc.elapsed < fc.answerAt /\ fc.elapsed < fc.timeoutMs
    /\ fc' = [fc EXCEPT !.elapsed = NextInstant(@)]
    /\ UNCHANGED <<workflowVars, normVars, url, tf, conn, auth, quiz, chat, sc>>

\* The answer arrives while the call is pending: the promise resolves.
FlaskCall_Answer ==
    /\ fc.pc = "pending"
    /\ fc.elapsed >= fc.answerAt
    /\ fc' = [fc EXCEPT !.pc = "resolved", !.delivered = <<fc.resp>>]
    /\ UNCHANGED <<workflowVars, normVars, url, tf, conn, auth, quiz, chat, sc>>

\* The timeout expires first: axios aborts the call and the promise rejects.
FlaskCall_Timeout ==
    /\ fc.pc = "pending"
    /\ fc.elapsed >= fc.timeoutMs
    /\ fc' = [fc EXCEPT !.pc = "rejected", !.error = "ECONNABORTED"]
    /\ UNCHANGED <<workflowVars, normVars, url, tf, conn, auth, quiz, chat, sc>>

NextFlaskCall ==
    \/ FlaskCall_Send
    \/ FlaskCall_Elapse
    \/ FlaskCall_Answer
    \/ FlaskCall_Timeout

SpecFlaskCall == Init /\ [][NextFlaskCall]_vars

(***************************************************************************)
(* GET /students/:userId/courses                                           *)
(***************************************************************************)
\* Student documents: s1 is enrolled in both courses, s9 is not a student.
StudentIds == {"s1", "s9"}

StudentCourseIds(userId) == IF userId = "s1" THEN <<"C1", "C2">> ELSE <<>>

StudentFound(userId) == userId = "s1"

\* What lecture.rawAiMetaData?.segments can be.  The metadata is whatever
\* the AI service or the webhook caller sent: "{}" has no segments, the
\* other values may hold a segment list, something that is no array, or
\* no such field.
MetaSegmentsChoices(meta) ==
    IF meta = "{}" THEN {<<"missing">>}
    ELSE {<<"missing">>, <<"array", S1>>, <<"array", S2>>, <<"other">>}

\* lecture.rawAiMetaData?.segments || [], then Array.isArray(rawSegments)
RawSegmentsOf(content) == IF content[1] = "array" THEN content[2] ELSE <<>>

\* rawSegments.map(seg => ({start, end, title, summary, count}))
ViewSegment(segment) ==
    [start   |-> NumOr(segment, "start", "startTime", 0),
     end     |-> NumOr(segment, "end", "endTime", 0),
     title   |-> StrOr(segment, "title", "name", "Untitled Segment"),
     summary |-> StrOr(segment, "summary", "summary", ""),
     count   |-> IF "count" \in DOMAIN segment THEN segment.count ELSE 0]

\* One element of allLectures.
ViewLecture(courseId, lecture, content) ==
    [id |-> lecture.lectureId, title |-> lecture.lectureTitle, courseId |-> courseId,
     videoUrl |-> lecture.videoUrl,
     lectureSegments |-> [k \in DOMAIN RawSegmentsOf(content) |->
                            ViewSegment(RawSegmentsOf(content)[k])]]

\* courses.flatMap(course => course.lectures.map(...)), with the stored
\* lecture each element was made from.
RECURSIVE FlatLectures(_, _)
FlatLectures(courseIds, store) ==
    IF Len(courseIds) = 0 THEN <<>>
    ELSE [k \in DOMAIN store[Head(courseIds)].lectures |->
            [courseId |-> Head(courseIds), lecture |-> store[Head(courseIds)].lectures[k]]]
         \o FlatLectures(Tail(courseIds), store)

\* The handler: Student.findOne, Course.find, the transformation, 200.
Students_GetCourses ==
    /\ sc.status = 0
    /\ \E userId \in StudentIds :
         IF ~StudentFound(userId)
         THEN sc' = [IdleStudentCourses EXCEPT !.status = 404, !.userId = userId]
         ELSE LET read == FlatLectures(StudentCourseIds(userId), courses) IN
              \E contents \in [DOMAIN read -> UNION {MetaSegmentsChoices(m) : m \in {"{}", "M1"}}] :
                /\ \A k \in DOMAIN read :
                     contents[k] \in MetaSegmentsChoices(read[k].lecture.rawAiMetaData)
                /\ sc' = [status |-> 200, userId |-> userId, read |-> read,
                          lectures |-> [k \in DOMAIN read |->
                                          ViewLecture(read[k].courseId, read[k].lecture,
                                                      contents[k])]]
    /\ UNCHANGED <<workflowVars, normVars, url, tf, fc, conn, auth, quiz, chat>>

\* The webhook and its updater, and the students' view of the courses.
NextStudents ==
    \/ \E w \in Hooks : SegmentationComplete_Start(w)
    \/ \E w \in Hooks : Update_FindCourse(w)
    \/ \E w \in Hooks : Update_SaveCourse(w)
    \/ \E w \in Hooks : Update_FindLecturers(w)
    \/ \E w \in Hooks : Update_SaveLecturer(w)
    \/ Students_GetCourses

SpecStudents == Init /\ [][NextStudents]_vars

(***************************************************************************)
(* connectDB with its cache { conn, promise } in global.mongoose.  Each    *)
(* await is a step; MONGODB_URI is set.  readyState: 0 disconnected,       *)
(* 1 connected, 2 connecting.                                              *)
(***************************************************************************)
\* The process starts with the cache empty; mongoose may hold a connection
\* that was not made through the cache (the stale connection the code
\* closes first).
ConnectDB_Boot ==
    /\ conn.booted = FALSE
    /\ \E readyState \in {0, 1} :
         conn' = [conn EXCEPT !.booted = TRUE, !.readyState = readyState]
    /\ UNCHANGED <<workflowVars, normVars, url, tf, fc, auth, quiz, chat, sc>>

Pending(c) == {k \in DOMAIN c.attempts : c.attempts[k] = "pending"}

\* cached.promise = mongoose.connect(...).then(...).catch(...), and the
\* caller goes on to await cached.promise.
StartAttempt(c, caller) ==
    [c EXCEPT !.attempts = Append(@, "pending"),
              !.cachedPromise = Len(c.attempts) + 1,
              !.readyState = 2,
              !.pc[caller] = "awaiting",
              !.awaits[caller] = Len(c.attempts) + 1]

\* A call up to its first await: the cached connection, or the pending
\* promise, or a new attempt, after the disconnect of a stale connection.
ConnectDB_Call(caller) ==
    /\ conn.booted /\ conn.pc[caller] = "idle"
    /\ IF conn.cachedConn
       THEN conn' = [conn EXCEPT !.pc[caller] = "returned"]
       ELSE IF conn.cachedPromise = 0
            THEN IF conn.readyState # 0
                 THEN conn' = [conn EXCEPT !.pc[caller] = "disconnecting"]
                 ELSE /\ Len(conn.attempts) < MaxConnects
                      /\ conn' = StartAttempt(conn, caller)
            ELSE conn' = [conn EXCEPT !.pc[caller] = "awaiting",
                                      !.awaits[caller] = conn.cachedPromise]
    /\ UNCHANGED <<workflowVars, normVars, url, tf, fc, auth, quiz, chat, sc>>

\* await mongoose.disconnect() is over (its errors are ignored); the
\* attempt is started without looking at the cache again.
ConnectDB_Disconnected(caller) ==
    /\ conn.pc[caller] = "disconnecting"
    /\ Len(conn.attempts) < MaxConnects
    /\ conn' = StartAttempt(conn, caller)
    /\ UNCHANGED <<workflowVars, normVars, url, tf, fc, auth, quiz, chat, sc>>

\* mongoose.connect resolves.
Mongoose_Connected(k) ==
    /\ k \in Pending(conn)
    /\ conn' = [conn EXCEPT !.attempts[k] = "resolved", !.readyState = 1]
    /\ UNCHANGED <<workflowVars, normVars, url, tf, fc, auth, quiz, chat, sc>>

\* mongoose.connect rejects: .catch(error => { cached.promise = null; throw error })
Mongoose_ConnectFailed(k) ==
    /\ k \in Pending(conn)
    /\ conn' = [conn EXCEPT !.attempts[k] = "rejected", !.cachedPromise = 0,
                            !.readyState = IF Pending(conn) = {k} THEN 0 ELSE @]
    /\ UNCHANGED <<workflowVars, normVars, url, tf, fc, auth, quiz, chat, sc>>

\* cached.conn = await cached.promise; return, or the rejection is rethrown.
ConnectDB_Resume(caller) ==
    /\ conn.pc[caller] = "awaiting"
    /\ conn.attempts[conn.awaits[caller]] # "pending"
    /\ conn' = IF conn.attempts[conn.awaits[caller]] = "resolved"
               THEN [conn EXCEPT !.cachedConn = TRUE, !.pc[caller] = "returned"]
               ELSE [conn EXCEPT !.pc[caller] = "threw"]
    /\ UNCHANGED <<workflowVars, normVars, url, tf, fc, auth, quiz, chat, sc>>

NextConnect ==
    \/ ConnectDB_Boot
    \/ \E caller \in Callers : ConnectDB_Call(caller)
    \/ \E caller \in Callers : ConnectDB_Disconnected(caller)
    \/ \E k \in 1..MaxConnects : Mongoose_Connected(k)
    \/ \E k \in 1..MaxConnects : Mongoose_ConnectFailed(k)
    \/ \E caller \in Callers : ConnectDB_Resume(caller)

SpecConnect == Init /\ [][NextConnect]_vars

(***************************************************************************)
(* POST /auth/signup and POST /auth/signin.  The User model is not part of *)
(* the sources: a user is a document with a unique email (the handler      *)
(* expects E11000 from save()), passwords are compared as they were given. *)
(***************************************************************************)
AuthRequests ==
    [email : {"", "Ann@X.io", "bob@x.io"}, password : {"", "p1", "p2"},
     role : {"", "student", "instructor", "admin"}]

\* if (!email || !password || !role) ...; if (!['student', 'instructor'].includes(role)) ...
AuthFieldsStatus(req) ==
    IF req.email = "" \/ req.password = "" \/ req.role = "" THEN 400
    ELSE IF req.role \notin {"student", "instructor"} THEN 400
    ELSE 0

\* User.findOne({ email: email.toLowerCase() })
FindUser(users, email) == {u \in users : u.email = ToLowerCase(email)}

\* await user.comparePassword(password)
ComparePassword(user, password) == user.password = password

\* A plausible slip: the requested role is not compared with the stored one.
RoleMatchesAny(user, role) == TRUE

\* user.role !== role  is the 403
RoleMatches(user, role) == user.role = role

AuthAnswer(h, status, cookie) == [h EXCEPT !.pc = "done", !.status = status, !.cookie = cookie]

\* signup up to the result of User.findOne.
Signup_Start(k) ==
    /\ auth.h[k].pc = "idle"
    /\ \E req \in AuthRequests, ok \in BOOLEAN :
         LET h == [auth.h[k] EXCEPT !.kind = "signup", !.req = req] IN
         auth' = [auth EXCEPT !.h[k] =
                    IF AuthFieldsStatus(req) # 0 THEN AuthAnswer(h, 400, "")
                    ELSE IF ~ok THEN AuthAnswer(h, 500, "")
                    ELSE IF FindUser(auth.users, req.email) # {} THEN AuthAnswer(h, 400, "")
                    ELSE [h EXCEPT !.pc = "save"]]
    /\ UNCHANGED <<workflowVars, normVars, url, tf, fc, conn, quiz, chat, sc>>

\* await newUser.save(): stored, or E11000 (400), or another error (500).
Signup_Save(k) ==
    /\ auth.h[k].pc = "save" /\ auth.h[k].kind = "signup"
    /\ \E ok \in BOOLEAN :
         LET h == auth.h[k]
             newUser == [email |-> ToLowerCase(h.req.email), password |-> h.req.password,
                         role |-> h.req.role]
         IN  auth' = IF ~ok THEN [auth EXCEPT !.h[k] = AuthAnswer(h, 500, "")]
                     ELSE IF FindUser(auth.users, h.req.email) # {}
                          THEN [auth EXCEPT !.h[k] = AuthAnswer(h, 400, "")]
                          ELSE [auth EXCEPT !.users = @ \cup {newUser},
                                            !.h[k] = [h EXCEPT !.pc = "track", !.stored = TRUE,
                                                               !.user = newUser]]
    /\ UNCHANGED <<workflowVars, normVars, url, tf, fc, conn, quiz, chat, sc>>

\* signin up to the result of User.findOne.
Signin_Start(k) ==
    /\ auth.h[k].pc = "idle"
    /\ \E req \in AuthRequests, ok \in BOOLEAN :
         LET h == [auth.h[k] EXCEPT !.kind = "signin", !.req = req]
             found == FindUser(auth.users, req.email)
         IN  auth' = [auth EXCEPT !.h[k] =
                        IF AuthFieldsStatus(req) # 0 THEN AuthAnswer(h, 400, "")
                        ELSE IF ~ok THEN AuthAnswer(h, 500, "")
                        ELSE IF found = {} THEN AuthAnswer(h, 401, "")
                        ELSE [h EXCEPT !.pc = "compare", !.user = CHOOSE u \in found : TRUE]]
    /\ UNCHANGED <<workflowVars, normVars, url, tf, fc, conn, quiz, chat, sc>>

\* await user.comparePassword(password), then the role check.
Signin_Compare(k) ==
    /\ auth.h[k].pc = "compare"
    /\ \E ok \in BOOLEAN :
         LET h == auth.h[k] IN
         auth' = [auth EXCEPT !.h[k] =
                    IF ~ok THEN AuthAnswer(h, 500, "")
                    ELSE IF ~ComparePassword(h.user, h.req.password) THEN AuthAnswer(h, 401, "")
                    ELSE IF ~RoleMatches(h.user, h.req.role) THEN AuthAnswer(h, 403, "")
                    ELSE [h EXCEPT !.pc = "track"]]
    /\ UNCHANGED <<workflowVars, normVars, url, tf, fc, conn, quiz, chat, sc>>

\* await loginEvent.save() (a failure is only logged), res.cookie('userId', ...)
\* and the 201 or 200.
Auth_TrackAndAnswer(k) ==
    /\ auth.h[k].pc = "track"
    /\ auth' = [auth EXCEPT !.h[k] =
                  AuthAnswer(auth.h[k], IF auth.h[k].kind = "signup" THEN 201 ELSE 200,
                             auth.h[k].user.email)]
    /\ UNCHANGED <<workflowVars, normVars, url, tf, fc, conn, quiz, chat, sc>>

NextAuth ==
    \/ \E k \in AuthHandlers : Signup_Start(k)
    \/ \E k \in AuthHandlers : Signup_Save(k)
    \/ \E k \in AuthHandlers : Signin_Start(k)
    \/ \E k \in AuthHandlers : Signin_Compare(k)
    \/ \E k \in AuthHandlers : Auth_TrackAndAnswer(k)

SpecAuth == Init /\ [][NextAuth]_vars

(***************************************************************************)
(* QuizDisplay: the state of the component and what its enabled buttons    *)
(* do.  Each click runs its handler on the state that was rendered.        *)
(***************************************************************************)
\* The letters of the options of a question.
OptionLetters == {"A", "B", "C", "D"}

\* useState(0), useState({}), useState(false), for a quiz of n questions;
\* a question without selected answer has "".
MountedQuiz(n) ==
    [mounted |-> TRUE, n |-> n, currentQuestion |-> 0,
     selectedAnswers |-> [i \in 0..(n - 1) |-> ""], showResults |-> FALSE]

\* The component is rendered with the questions parsed from quizContent.
Quiz_Mount ==
    /\ ~quiz.mounted
    /\ \E n \in 0..MaxQuestions : quiz' = MountedQuiz(n)
    /\ UNCHANGED <<workflowVars, normVars, url, tf, fc, conn, auth, chat, sc>>

\* The question view is what is rendered: there are questions and the
\* results are not shown.
QuestionView == quiz.mounted /\ quiz.n > 0 /\ ~quiz.showResults

\* A plausible slip: Next is enabled without a selected answer.
NextEnabledAlways(q) == TRUE

\* disabled={!selectedAnswers[currentQuestion]}
NextEnabled(q) == q.selectedAnswers[q.currentQuestion] # ""

\* handleSelectAnswer
Quiz_SelectAnswer ==
    /\ QuestionView
    /\ \E letter \in OptionLetters :
         quiz' = [quiz EXCEPT !.selectedAnswers[quiz.currentQuestion] = letter]
    /\ UNCHANGED <<workflowVars, normVars, url, tf, fc, conn, auth, chat, sc>>

\* handleNext
Quiz_Next ==
    /\ QuestionView /\ NextEnabled(quiz)
    /\ quiz' = IF quiz.currentQuestion < quiz.n - 1
               THEN [quiz EXCEPT !.currentQuestion = @ + 1]
               ELSE [quiz EXCEPT !.showResults = TRUE]
    /\ UNCHANGED <<workflowVars, normVars, url, tf, fc, conn, auth, chat, sc>>

\* Back: setCurrentQuestion(prev => prev - 1), disabled={currentQuestion === 0}
Quiz_Back ==
    /\ QuestionView /\ quiz.currentQuestion # 0
    /\ quiz' = [quiz EXCEPT !.currentQuestion = @ - 1]
    /\ UNCHANGED <<workflowVars, normVars, url, tf, fc, conn, auth, chat, sc>>

\* Retry: handleRestart, a button of the results view.
Quiz_Retry ==
    /\ quiz.mounted /\ quiz.n > 0 /\ quiz.showResults
    /\ quiz' = [quiz EXCEPT !.currentQuestion = 0,
                            !.selectedAnswers = [i \in 0..(quiz.n - 1) |-> ""],
                            !.showResults = FALSE]
    /\ UNCHANGED <<workflowVars, normVars, url, tf, fc, conn, auth, chat, sc>>

NextQuiz ==
    \/ Quiz_Mount
    \/ Quiz_SelectAnswer
    \/ Quiz_Next
    \/ Quiz_Back
    \/ Quiz_Retry

SpecQuiz == Init /\ [][NextQuiz]_vars

(***************************************************************************)
(* ChatBox: the displayed messages, the active session, one pending        *)
(* sendChatMessage and one pending getChatHistory.  A message carries the  *)
(* session it belongs to.  The session select is not disabled while a      *)
(* message is being sent.                                                  *)
(***************************************************************************)
\* The user message of the n-th send and the reply to it.
UserMessage(session, n) == [role |-> "user", session |-> session, n |-> n]

AssistantMessage(session, n) == [role |-> "assistant", session |-> session, n |-> n]

\* prev.slice(0, -1)
DropLast(messages) == SubSeq(messages, 1, Len(messages) - 1)

\* onValueChange={(value) => setActiveSessionId(value)} (also the default
\* session chosen by loadSessions), and the effect it triggers up to its
\* await of getChatHistory.
Chat_SelectSession ==
    /\ chat.hist.pc = "idle"
    /\ \E session \in ChatSessions \ {chat.active} :
         chat' = [chat EXCEPT !.active = session,
                              !.hist = [pc |-> "loading", session |-> session]]
    /\ UNCHANGED <<workflowVars, normVars, url, tf, fc, conn, auth, quiz, sc>>

\* getChatHistory answers: setMessages(history.map(...)); or it fails and
\* only the error is set.
Chat_HistoryLoaded ==
    /\ chat.hist.pc = "loading"
    /\ \E ok \in BOOLEAN :
         chat' = [chat EXCEPT !.hist.pc = "idle",
                              !.messages = IF ok THEN chat.stored[chat.hist.session] ELSE @]
    /\ UNCHANGED <<workflowVars, normVars, url, tf, fc, conn, auth, quiz, sc>>

\* handleSendMessage up to its await of sendChatMessage.
Chat_Send ==
    /\ chat.active # "none" /\ chat.send.pc # "pending"
    /\ chat.sends < MaxSends
    /\ LET msg == UserMessage(chat.active, chat.sends + 1) IN
       chat' = [chat EXCEPT !.messages = Append(@, msg),
                            !.sends = @ + 1,
                            !.send = [pc |-> "pending", session |-> chat.active,
                                      msg |-> msg, before |-> chat.messages]]
    /\ UNCHANGED <<workflowVars, normVars, url, tf, fc, conn, auth, quiz, sc>>

\* sendChatMessage resolved: the reply, if there is one, is appended; the
\* server has stored the exchange in the session it was sent in.
Chat_SendResolved ==
    /\ chat.send.pc = "pending"
    /\ \E hasResponse \in BOOLEAN :
         LET reply == AssistantMessage(chat.send.session, chat.send.msg.n) IN
         chat' = [chat EXCEPT !.messages = IF hasResponse THEN Append(@, reply) ELSE @,
                              !.stored[chat.send.session] =
                                  @ \o <<chat.send.msg>> \o (IF hasResponse THEN <<reply>> ELSE <<>>),
                              !.send.pc = "resolved"]
    /\ UNCHANGED <<workflowVars, normVars, url, tf, fc, conn, auth, quiz, sc>>

\* sendChatMessage rejected: setMessages(prev => prev.slice(0, -1))
Chat_SendFailed ==
    /\ chat.send.pc = "pending"
    /\ chat' = [chat EXCEPT !.messages = DropLast(@), !.send.pc = "failed"]
    /\ UNCHANGED <<workflowVars, normVars, url, tf, fc, conn, auth, quiz, sc>>

NextChat ==
    \/ Chat_SelectSession
    \/ Chat_HistoryLoaded
    \/ Chat_Send
    \/ Chat_SendResolved
    \/ Chat_SendFailed

SpecChat == Init /\ [][NextChat]_vars

(***************************************************************************)
(* Helpers of the properties.                                              *)
(***************************************************************************)
TheStore == CHOOSE st \in InitialStores : TRUE

\* The stored copies of a lecture.
CourseLecture(courseId, lectureId) ==
    courses[courseId].lectures[FindIndex(courses[courseId].lectures, lectureId)]

LecturerLecture(userId, lectureId) ==
    lecturers[userId].lectures[FindIndex(lecturers[userId].lectures, lectureId)]

InCourse(courseId, lectureId) ==
    /\ courseId \in DOMAIN courses
    /\ FindIndex(courses[courseId].lectures, lectureId) > 0

InLecturer(userId, lectureId) ==
    /\ lecturers[userId].exists
    /\ FindIndex(lecturers[userId].lectures, lectureId) > 0

\* The lecture holds these segments in the course and in every aggregate
\* that contains it.
StoredEverywhere(courseId, lectureId, lectureSegments) ==
    /\ InCourse(courseId, lectureId)
    /\ CourseLecture(courseId, lectureId).lectureSegments = lectureSegments
    /\ \A u \in UserIds :
         InLecturer(u, lectureId) =>
             LecturerLecture(u, lectureId).lectureSegments = lectureSegments

\* No other request or updater has started.
OnlyOperation(r) ==
    /\ \A q \in Reqs \ {r} : cu[q].pc = "idle"
    /\ \A w \in Hooks : hook[w].pc = "idle"

\* What the segments of the requests must be stored as.
NormalizedS1 == <<[start |-> 0, end |-> 30, title |-> "Intro", summary |-> ""]>>

NormalizedS2 ==
    <<[start |-> 30, end |-> 60, title |-> "Body", summary |-> "Sum"],
      [start |-> 60, end |-> 0, title |-> "Untitled Segment", summary |-> ""]>>

Expected(segments) ==
    IF segments = S1 THEN NormalizedS1
    ELSE IF segments = S2 THEN NormalizedS2
    ELSE <<>>

\* updateLectureWithSegments run from a store to its end, alone and with
\* no failing write.
ApplySegments(st, lectureId, courseId, segments, fullAiData) ==
    LET lectureSegments == NormalizeSegments(segments) IN
    [courses |->
        [c \in DOMAIN st.courses |->
            IF c = courseId
            THEN [st.courses[c] EXCEPT
                    !.lectures = SetSegments(@, lectureId, lectureSegments, fullAiData)]
            ELSE st.courses[c]],
     lecturers |->
        [u \in DOMAIN st.lecturers |->
            IF st.lecturers[u].exists
            THEN [st.lecturers[u] EXCEPT
                    !.lectures = SetSegments(@, lectureId, lectureSegments, fullAiData)]
            ELSE st.lecturers[u]]]

ValidWebhookRequests == {req \in WebhookRequests : WebhookStatus(req) = 0}

(***************************************************************************)
(* C1.  A CompleteUpload whose userId is not the course's instructorId is  *)
(* answered 403 (the database being connected) and saves no document: a    *)
(* request answered 403 has made no save, and when it was the only request *)
(* the store is as it was.                                                 *)
(***************************************************************************)
C1_PermissionDenied ==
    \A r \in Reqs :
        LET c == cu[r] IN
        /\ (/\ c.pc = "done"
            /\ ~FieldsMissing(c.req)
            /\ c.req.courseId \in DOMAIN courses
            /\ courses[c.req.courseId].instructorId # c.req.userId)
           => /\ c.saves = 0
              /\ ~c.envFail => c.status = 403
              /\ OnlyOperation(r) =>
                    courses = TheStore.courses /\ lecturers = TheStore.lecturers
        /\ c.status = 403 => c.saves = 0

C1_Witness ==
    \E r \in Reqs :
        /\ cu[r].status = 403
        /\ cu[r].req.userId = "u2" /\ cu[r].req.courseId = "C1"
        /\ OnlyOperation(r)

(***************************************************************************)
(* C2.  When every attempt of the health check failed, CompleteUpload for  *)
(* a course of the caller (no store or signing failure) answers 200 with   *)
(* indexingInProgress = false after saving both documents, and a request   *)
(* that ran alone leaves the lecture in the Course and in the caller's     *)
(* Lecturer aggregate with an empty segment list.                          *)
(***************************************************************************)
C2_HealthFailureDegrades ==
    \A r \in Reqs :
        LET c == cu[r] IN
        (c.pc = "done" /\ c.health = "null" /\ ~c.envFail)
        => /\ c.status = 200
           /\ c.indexing = FALSE
           /\ c.saves = 2
           /\ c.sent = {"health"}
           /\ solo = r =>
                /\ InCourse(c.req.courseId, c.req.lectureId)
                /\ CourseLecture(c.req.courseId, c.req.lectureId).lectureSegments = <<>>
                /\ InLecturer(c.req.userId, c.req.lectureId)
                /\ LecturerLecture(c.req.userId, c.req.lectureId).lectureSegments = <<>>

C2_Witness ==
    \E r \in Reqs :
        /\ cu[r].pc = "done" /\ cu[r].health = "null" /\ cu[r].status = 200
        /\ solo = r
        /\ cu[r].req.lectureId = "L1" /\ cu[r].req.courseId = "C1"
        /\ CourseLecture("C1", "L1").lectureSegments = <<>>

(***************************************************************************)
(* C3.  A CompleteUpload that obtained a task id, whose segment-video call *)
(* answered success and whose updater has returned, no write having        *)
(* failed and nothing else having run: the lecture holds the normalized    *)
(* segments of the answer in the Course and in the Lecturer aggregate.     *)
(***************************************************************************)
C3_SegmentsLand ==
    \A r \in Reqs :
        (/\ cu[r].pc = "done" /\ cu[r].status = 200
         /\ seg[r] = "success" /\ ap[r].pc = "done"
         /\ failures = 0
         /\ OnlyOperation(r))
        => /\ StoredEverywhere(cu[r].req.courseId, cu[r].req.lectureId,
                               ap[r].lectureSegments)
           /\ InLecturer(cu[r].req.userId, cu[r].req.lectureId)

(***************************************************************************)
(* C4.  CompleteUpload answers without waiting for the segment-video call: *)
(* a success response comes after both saves, and every handler that has   *)
(* passed its checks answers, whether or not the call ever resolves.       *)
(***************************************************************************)
C4_ResponseNotJoined ==
    /\ [](\A r \in Reqs : cu[r].status = 200 => cu[r].saves = 2)
    /\ \A r \in Reqs : (cu[r].pc = "saveCourse") ~> (cu[r].pc = "done")

C4_Witness ==
    \E r \in Reqs : cu[r].pc = "done" /\ cu[r].status = 200 /\ seg[r] = "pending"

(***************************************************************************)
(* C5.  No write having failed and only updater invocations having run     *)
(* (webhooks): once they have all returned, every lecture of a course      *)
(* holds the same segment list in the Course and in every Lecturer         *)
(* aggregate that contains it.  (Stated for the runs in which every save   *)
(* wrote over the document as it was loaded, so that it is decided the     *)
(* same by a store that rejects stale saves.)                              *)
(***************************************************************************)
C5_CopiesAgree ==
    (/\ \A r \in Reqs : cu[r].pc = "idle"
     /\ \A p \in Procs : ~Running(ap[p].pc)
     /\ failures = 0
     /\ ~staleSaves)
    => \A c \in CourseIds : \A i \in 1..Len(courses[c].lectures) :
         \A u \in UserIds :
            InLecturer(u, courses[c].lectures[i].lectureId) =>
                LecturerLecture(u, courses[c].lectures[i].lectureId).lectureSegments
                    = courses[c].lectures[i].lectureSegments

(***************************************************************************)
(* C6.  ApplySegments is idempotent.  An updater that ran alone without a  *)
(* failing write leaves the store ApplySegments gives, and applying        *)
(* ApplySegments once more changes nothing; the same holds from every      *)
(* store the workflow reaches, for every valid webhook body.               *)
(***************************************************************************)
C6_Idempotent ==
    /\ \A p \in Procs :
         (ap[p].pc = "done" /\ solo = p /\ ~ap[p].failed /\ Len(ap[p].before) = 1)
         => LET a == ap[p]
                once == ApplySegments(a.before[1], a.lectureId, a.courseId,
                                      a.segments, a.fullAiData)
            IN  /\ [courses |-> courses, lecturers |-> lecturers] = once
                /\ ApplySegments(once, a.lectureId, a.courseId, a.segments,
                                 a.fullAiData) = once
    /\ \A req \in ValidWebhookRequests :
         LET once == ApplySegments([courses |-> courses, lecturers |-> lecturers],
                                   req.lectureId, req.courseId, req.segments, MetaOf(req))
         IN  ApplySegments(once, req.lectureId, req.courseId, req.segments,
                           MetaOf(req)) = once

C6_Witness ==
    \E p \in Hooks :
        /\ ap[p].pc = "done" /\ solo = p /\ ~ap[p].failed /\ Len(ap[p].before) = 1
        /\ ap[p].before[1].courses # courses
        /\ ap[p].before[1].lecturers # lecturers
        /\ CourseLecture("C1", "L1").lectureSegments = NormalizedS2

(***************************************************************************)
(* C7.  After a CompleteUpload of lecture L in course C answered with      *)
(* indexingInProgress = true, a SegmentationWebhook(L, C, segments) that   *)
(* runs alone and without a failing write leaves L with the normalized     *)
(* segments in Course C and in every Lecturer aggregate containing L;      *)
(* [{start:0,end:30,title:'Intro'}] is stored with summary ''.             *)
(***************************************************************************)
C7_WebhookAfterUpload ==
    \A w \in Hooks :
        (/\ hook[w].pc = "done" /\ hook[w].status = 200
         /\ hook[w].afterUpload
         /\ solo = w
         /\ ~ap[w].failed)
        => StoredEverywhere(ap[w].courseId, ap[w].lectureId, Expected(ap[w].segments))

C7_Witness ==
    \E w \in Hooks :
        /\ hook[w].pc = "done" /\ hook[w].status = 200 /\ hook[w].afterUpload
        /\ solo = w /\ ~ap[w].failed
        /\ ap[w].segments = S1
        /\ \E r \in Reqs : cu[r].indexing /\ cu[r].req.lectureId = "L1"
                           /\ cu[r].req.courseId = "C1" /\ cu[r].taskId = "t1"
        /\ CourseLecture("C1", "L1").lectureSegments = NormalizedS1
        /\ LecturerLecture("u1", "L1").lectureSegments = NormalizedS1

(***************************************************************************)
(* C8.  Normalization gives the same list for segments written with the    *)
(* canonical names (start, end, title) and for the same segments written   *)
(* with the alternate names (startTime, endTime, name).                    *)
(***************************************************************************)
C8_AlternateNames ==
    (normDone /\ \A i \in 1..Len(normIn) : OnlyCanonical(normIn[i]))
    => normOut = NormalizeSegments([i \in 1..Len(normIn) |-> ToAlternate(normIn[i])])

C8_Witness ==
    /\ normDone
    /\ normIn = <<[start |-> 5, end |-> 30, title |-> "Intro"]>>
    /\ normOut = <<[start |-> 5, end |-> 30, title |-> "Intro", summary |-> ""]>>
    /\ ToAlternate(normIn[1]) = [startTime |-> 5, endTime |-> 30, name |-> "Intro"]

C10_AbortBeforeSideEffects ==
    \A r \in Reqs :
        LET c == cu[r] IN
        /\ (c.pc = "done" /\ (FieldsMissing(c.req) \/ ~OwnsCourse(c.req)))
           => /\ c.status \in {400, 403, 404, 500}
              /\ c.status = 500 => c.envFail
              /\ c.sent = {} /\ c.saves = 0
              /\ seg[r] = "none" /\ ap[r].pc = "idle"
        /\ c.status \in {400, 403, 404} => c.sent = {} /\ c.saves = 0

C10_Witness ==
    /\ cu["r1"].status = 400
    /\ cu["r2"].status = 404
    /\ courses = TheStore.courses /\ lecturers = TheStore.lecturers

(***************************************************************************)
(* C11.  A failed save is answered 500: a CompleteUpload whose course.save *)
(* or lecturer.save failed has answered 500, and a SegmentationWebhook     *)
(* whose updater had a course.save or lecturer.save fail has answered 500  *)
(* and not a success.                                                      *)
(***************************************************************************)
C11_WriteFailureIs500 ==
    /\ \A r \in Reqs :
         (cu[r].pc = "done" /\ cu[r].saveFailed) => cu[r].status = 500
    /\ \A w \in Hooks :
         (hook[w].pc = "done" /\ ap[w].saveFailed) => hook[w].status = 500

C13_EitherFieldName ==
    \A r \in Reqs :
        LET c == cu[r] IN
        (/\ c.pc = "done" /\ c.status = 200
         /\ ("task_id" \in DOMAIN c.indexResp \/ "taskId" \in DOMAIN c.indexResp))
        => /\ c.taskId # "null"
           /\ "segment" \in c.sent
           /\ c.indexing

(***************************************************************************)
(* C14.  POST /upload/presigned-url with a filename whose extension (the   *)
(* part after its last dot, compared in lower case; none when it has no    *)
(* dot) is not one of mp4, webm, mov, avi, mkv is answered 400, and no key *)
(* is generated and no URL signed, whatever the other fields and the       *)
(* bucket configuration.                                                   *)
(***************************************************************************)
C14_DisallowedExtension ==
    (/\ url.route = "presigned-url"
     /\ \/ Len(url.req.filename) = 1
        \/ ToLowerCase(url.req.filename[Len(url.req.filename)]) \notin ValidExtensions)
    => /\ url.status = 400
       /\ url.key = <<>>
       /\ url.signed = {}

(***************************************************************************)
(* C17.  GET /upload/stream/:videoKey for a key the bucket holds no object *)
(* for (the bucket being configured and the key well-formed) is answered   *)
(* 404 and returns no stream URL.                                          *)
(***************************************************************************)
C17_StreamUnknownKey ==
    (/\ url.route = "stream"
     /\ url.bucket # ""
     /\ Decodable(url.req.videoKey)
     /\ DecodeURIComponent(url.req.videoKey) \notin StoredObjects)
    => url.status = 404

(***************************************************************************)
(* C18.  Every URL is signed with expiresIn = 3600: the upload URL of      *)
(* /presigned-url, the download URL /complete signs for the AI service and *)
(* the URL of /stream, whose 200 response also carries expiresIn = 3600.   *)
(***************************************************************************)
C18_ExpiresInOneHour ==
    /\ \A command \in url.signed : command.expiresIn = 3600
    /\ (url.route = "stream" /\ url.status = 200) => url.expiresIn = 3600
    /\ \A r \in Reqs : \A expiresIn \in cu[r].signed : expiresIn = 3600

C18_Witness ==
    /\ url.route = "stream" /\ url.status = 200
    /\ url.signed = {[command |-> "GetObject", bucket |-> "videos", key |-> "k1",
                      expiresIn |-> 3600]}
    /\ cu["r1"].signed = {3600} /\ cu["r1"].sent # {}

(***************************************************************************)
(* Lecture lists.                                                          *)
(***************************************************************************)
\* How many entries of a lecture list carry the lectureId.
Count(lectures, lectureId) ==
    Cardinality({i \in DOMAIN lectures : lectures[i].lectureId = lectureId})

LectureIds == {"L0", "L1", "L2"}

OnePerId(lectures) == \A l \in LectureIds : Count(lectures, l) <= 1

\* The list a handler saves, against the list of the document it loaded: an
\* entry replaced in place, or exactly one entry more.
ReplacedOrAppended(loaded, saved, lectureId) ==
    /\ Count(saved, lectureId) = 1
    /\ Len(saved) = Len(loaded) + (IF Count(loaded, lectureId) > 0 THEN 0 ELSE 1)
    /\ \A i \in DOMAIN loaded : loaded[i].lectureId # lectureId => saved[i] = loaded[i]

\* C15: whatever the CompleteUpload calls and their interleaving, no lecture
\* list of a course or of a lecturer aggregate ever holds two lectures with
\* the same lectureId; the list a CompleteUpload saves is the list of the
\* document it loaded with the entry of its lectureId replaced, or with
\* exactly one entry appended when the lectureId was not in it.
C15_OneLecturePerId ==
    [][ /\ \A c \in CourseIds : OnePerId(courses'[c].lectures)
        /\ \A u \in UserIds : OnePerId(lecturers'[u].lectures)
        /\ \A r \in Reqs :
             /\ (cu[r].pc = "saveCourse" /\ cu'[r].pc = "findLecturer")
                  => ReplacedOrAppended(cu[r].course.lectures,
                                        courses'[cu[r].req.courseId].lectures,
                                        cu[r].req.lectureId)
             /\ (cu[r].pc = "saveLecturer" /\ cu'[r].status = 200)
                  => ReplacedOrAppended(cu[r].lecturer.lectures,
                                        lecturers'[cu[r].req.userId].lectures,
                                        cu[r].req.lectureId) ]_vars

\* Two uploads of the new lecture L2 and both answered 200: the course and
\* the aggregate hold it once.
C15_Witness ==
    /\ \A r \in Reqs : /\ cu[r].pc = "done" /\ cu[r].status = 200
                       /\ cu[r].req.lectureId = "L2" /\ cu[r].req.courseId = "C1"
    /\ Count(courses["C1"].lectures, "L2") = 1
    /\ Count(lecturers["u1"].lectures, "L2") = 1
    /\ Len(courses["C1"].lectures) = 3

\* The lectureIds of the list are all still in the next list.
KeepsLectures(lectures, next) ==
    \A l \in LectureIds : Count(lectures, l) > 0 => Count(next, l) > 0

\* C16: no step of CompleteUpload, of an ApplySegments continuation or of a
\* SegmentationWebhook removes a lecture: a lectureId stored in a course's
\* or a lecturer aggregate's list is in that list after every step.
C16_NoLectureRemoved ==
    [][ /\ \A c \in CourseIds : KeepsLectures(courses[c].lectures, courses'[c].lectures)
        /\ \A u \in UserIds : KeepsLectures(lecturers[u].lectures, lecturers'[u].lectures)
      ]_vars

\* What the finished run of tryFlask looks like to its caller, in the terms
\* of TryFlaskFrom.
TryFlaskReturned ==
    [result |-> tf.result, attempts |-> tf.attempts, delays |-> tf.waited \div DefaultDelayMs]

TryFlaskRunIsBounded ==
    /\ Len(tf.outcomes) = tf.attempts
    /\ tf.attempts <= tf.retries + 1
    /\ tf.retries = DefaultRetries => tf.attempts <= 3
    /\ \A k \in DOMAIN tf.outcomes :
         tf.outcomes[k] = "ok" => /\ k = Len(tf.outcomes)
                                  /\ tf.pc = "returned" /\ tf.result = "ok"
    /\ tf.pc = "delay" => tf.attempts <= tf.retries
    /\ tf.pc # "returned" => tf.result = "pending"
    /\ (tf.pc = "returned" /\ tf.result = "ok")
         => /\ tf.outcomes[tf.attempts] = "ok"
            /\ tf.waited = tf.delayMs * (tf.attempts - 1)
    /\ (tf.pc = "returned" /\ tf.result # "ok")
         => /\ tf.result = "null"
            /\ tf.attempts = tf.retries + 1
            /\ \A k \in DOMAIN tf.outcomes : tf.outcomes[k] \in FailureCodes
            /\ tf.waited = tf.delayMs * tf.retries
    /\ (tf.pc = "returned" /\ tf.retries = DefaultRetries)
         => TryFlaskReturned \in TryFlaskResults

\* C19: tryFlask makes at most retries + 1 attempts, 3 with the defaults of
\* the health check and of the index-video trigger; a success ends the run
\* at once with that result; the delay is waited once after each failed
\* attempt but the last; after the last failure the result is null; and
\* every run that was called returns.
C19_TryFlaskBoundedAndTerminates ==
    /\ []TryFlaskRunIsBounded
    /\ (tf.pc # "idle") ~> (tf.pc = "returned")

\* The default run whose three attempts all failed: null, after two delays.
C19_Witness ==
    /\ tf.pc = "returned" /\ tf.retries = DefaultRetries /\ tf.result = "null"
    /\ tf.attempts = 3 /\ tf.waited = 2 * DefaultDelayMs

\* C20: the segment-video request of a CompleteUpload is sent once, by the
\* handler itself, and never again after it settled; when it fails or
\* answers with a status other than success, the step that takes the answer
\* changes no stored document and starts no ApplySegments, and none is ever
\* started for that upload afterwards.
C20_SegmentationNotRetried ==
    [][ \A r \in Reqs :
          /\ (seg[r] # "pending" /\ seg'[r] = "pending")
               => /\ seg[r] = "none" /\ cu[r].pc = "idle"
                  /\ "segment" \in cu'[r].sent
          /\ ("segment" \in cu[r].sent) => cu'[r].sent = cu[r].sent
          /\ (seg[r] = "pending" /\ seg'[r] = "failed")
               => /\ ap[r].pc = "idle" /\ ap'[r].pc = "idle"
                  /\ courses' = courses /\ lecturers' = lecturers
          /\ seg[r] = "failed" => /\ seg'[r] = "failed"
                                  /\ ap'[r].pc = "idle" ]_vars

\* An upload of L1 answered 200 whose segment-video call failed: no updater
\* ran for it and the lecture has the (empty) segment list of the upload.
C20_Witness ==
    /\ seg["r1"] = "failed" /\ cu["r1"].pc = "done" /\ cu["r1"].status = 200
    /\ cu["r1"].req.lectureId = "L1" /\ cu["r1"].req.courseId = "C1"
    /\ ap["r1"].pc = "idle"
    /\ CourseLecture("C1", "L1").lectureSegments = <<>>
    /\ LecturerLecture("u1", "L1").lectureSegments = <<>>

\* C21: a segment-video call whose answer comes more than 15 seconds after
\* it was sent (up to 15 minutes) still resolves and hands its response to
\* the continuation.
C21_SlowSegmentationDelivered ==
    (fc.pc \in {"resolved", "rejected"} /\ fc.kind = "segment"
       /\ fc.answerAt > CallTimeoutMs("health"))
      => (fc.pc = "resolved" /\ fc.delivered = <<fc.resp>>)

\* C22: an ApplySegments invocation that ran alone and whose writes all
\* succeeded has stored its normalized segments and its metadata in every
\* Lecturer aggregate that holds the lecture, whether or not the course was
\* found and held the lecture.
C22_EveryLecturerUpdated ==
    \A p \in Procs :
        (ap[p].pc = "done" /\ solo = p /\ ~ap[p].failed)
        => \A u \in UserIds :
             InLecturer(u, ap[p].lectureId)
             => /\ LecturerLecture(u, ap[p].lectureId).lectureSegments
                     = NormalizeSegments(ap[p].segments)
                /\ LecturerLecture(u, ap[p].lectureId).rawAiMetaData
                     = MetaOrEmpty(ap[p].fullAiData)

\* A webhook for lecture L1 naming course C2, which does not hold L1: the
\* aggregate of u1 got the segments.
C22_Witness ==
    \E w \in Hooks :
        /\ ap[w].pc = "done" /\ solo = w /\ ~ap[w].failed
        /\ ap[w].lectureId = "L1" /\ ap[w].courseId = "C2"
        /\ ~InCourse("C2", "L1")
        /\ ap[w].saves = 1
        /\ LecturerLecture("u1", "L1").lectureSegments = NormalizedS1
        /\ CourseLecture("C1", "L1").lectureSegments = OldSegments

\* The course write of the invocation succeeded and a lecturer write failed.
CourseWrittenLecturerFailed(w) ==
    /\ ap[w].pc = "done" /\ solo = w /\ Len(ap[w].before) = 1
    /\ ap[w].saveFailed /\ ap[w].saves = 1
    /\ FindIndex(ap[w].before[1].courses[ap[w].courseId].lectures, ap[w].lectureId) > 0

\* C23: an ApplySegments invocation writes the Course before any Lecturer
\* aggregate and never goes back; when it ran alone, its Course write
\* succeeded and its Lecturer write failed, the Course holds the new
\* segments and metadata while every Lecturer aggregate is as it was before
\* the invocation: nothing is rolled back and nothing else is written.
C23_CourseFirstNoRollback ==
    /\ [](\A w \in Hooks :
            CourseWrittenLecturerFailed(w)
            => LET a == ap[w]
                   applied == ApplySegments(a.before[1], a.lectureId, a.courseId,
                                            a.segments, a.fullAiData)
               IN  /\ courses = applied.courses
                   /\ lecturers = a.before[1].lecturers)
    /\ [][\A p \in Procs :
            /\ ap[p].pc \in {"findLecturers", "saveLecturer", "done"}
                 => ap'[p].pc \in {"findLecturers", "saveLecturer", "done"}
            /\ (ap[p].pc = "saveLecturer" /\ p \in Hooks /\ solo = p
                  /\ Len(ap[p].before) = 1 /\ Len(ap'[p].before) = 1
                  /\ InCourse(ap[p].courseId, ap[p].lectureId))
                 => CourseLecture(ap[p].courseId, ap[p].lectureId).lectureSegments
                      = ap[p].lectureSegments]_vars

\* The webhook for L1 in C1 with segments S2: the course has them, the
\* aggregate of u1 still has the old segments.
C23_Witness ==
    \E w \in Hooks :
        /\ CourseWrittenLecturerFailed(w)
        /\ ap[w].lectureId = "L1" /\ ap[w].courseId = "C1"
        /\ CourseLecture("C1", "L1").lectureSegments = NormalizedS2
        /\ LecturerLecture("u1", "L1").lectureSegments = OldSegments

\* The canonical-named field when the segment has it, else the
\* alternate-named field when the segment has it, else the default.
PresentOr(segment, a, b, d) ==
    IF a \in DOMAIN segment THEN segment[a]
    ELSE IF b \in DOMAIN segment THEN segment[b]
    ELSE d

\* C24: the normalized list has the length and order of the input, and each
\* output field is the canonical-named input field whenever the segment has
\* one (0 included), otherwise the alternate-named field, and the default
\* (0, 0, 'Untitled Segment', '') only when both are missing.
C24_CanonicalFieldWins ==
    normDone
    => /\ Len(normOut) = Len(normIn)
       /\ \A i \in 1..Len(normIn) :
            normOut[i] = [start   |-> PresentOr(normIn[i], "start", "startTime", 0),
                          end     |-> PresentOr(normIn[i], "end", "endTime", 0),
                          title   |-> PresentOr(normIn[i], "title", "name", "Untitled Segment"),
                          summary |-> PresentOr(normIn[i], "summary", "summary", "")]

\* The saved list is the loaded list with the lecture of the request
\* replaced in place by a fresh one.
ReplacedInPlace(loaded, saved, req, now) ==
    LET i == FindIndex(loaded, req.lectureId) IN
    /\ Len(saved) = Len(loaded)
    /\ \A k \in DOMAIN loaded : k # i => saved[k] = loaded[k]
    /\ saved[i].lectureId = req.lectureId
    /\ saved[i].lectureSegments = <<>>
    /\ saved[i].rawAiMetaData = "{}"
    /\ saved[i].studentRewindEvents = <<>>
    /\ saved[i].createdAt = now
    /\ saved[i].videoUrl = GetVideoUrl(req.videoKey)

\* C25: a CompleteUpload whose lectureId is in the document it loaded saves
\* that document with the same number and order of lectures, every other
\* lecture untouched, and the lecture itself reset: no segments, empty
\* rawAiMetaData, no rewind events, a new createdAt; this holds for the
\* Course and for the Lecturer aggregate.
C25_ReplacedInPlaceAndReset ==
    [][\A r \in Reqs :
         /\ (/\ cu[r].pc = "saveCourse" /\ cu'[r].pc = "findLecturer"
             /\ Count(cu[r].course.lectures, cu[r].req.lectureId) > 0)
              => ReplacedInPlace(cu[r].course.lectures,
                                 courses'[cu[r].req.courseId].lectures,
                                 cu[r].req, NewDate(r))
         /\ (/\ cu[r].pc = "saveLecturer" /\ cu'[r].status = 200
             /\ Count(cu[r].lecturer.lectures, cu[r].req.lectureId) > 0)
              => ReplacedInPlace(cu[r].lecturer.lectures,
                                 lecturers'[cu[r].req.userId].lectures,
                                 cu[r].req, NewDate(r))]_vars

\* The only operation so far is the re-upload of L1, which held segments
\* and a rewind event: L0 is untouched, L1 is fresh.
C25_Witness ==
    /\ opsStarted = 1 /\ cu["r1"].pc = "done" /\ cu["r1"].status = 200
    /\ cu["r1"].req.lectureId = "L1" /\ cu["r1"].req.courseId = "C1"
    /\ courses["C1"].lectures[1] = OldLectures[1]
    /\ lecturers["u1"].lectures[1] = OldLectures[1]
    /\ Len(courses["C1"].lectures) = 2 /\ Len(lecturers["u1"].lectures) = 2
    /\ courses["C1"].lectures[2].lectureSegments = <<>>
    /\ courses["C1"].lectures[2].studentRewindEvents = <<>>
    /\ lecturers["u1"].lectures[2].lectureSegments = <<>>
    /\ courses["C1"].lectures[2].createdAt > OldLectures[2].createdAt
    /\ OldLectures[2].lectureSegments # <<>>
    /\ OldLectures[2].studentRewindEvents # <<>>

\* start, end, title and summary of the segments of a response.
FourFields(segments) ==
    [k \in DOMAIN segments |->
        [start |-> segments[k].start, end |-> segments[k].end,
         title |-> segments[k].title, summary |-> segments[k].summary]]

\* The lecture read by the route is as an ApplySegments invocation that
\* wrote the course left it.
StoredByApplySegments(read) ==
    \E w \in Hooks :
        /\ ap[w].pc = "done" /\ ap[w].saves > 0
        /\ ap[w].lectureId = read.lecture.lectureId /\ ap[w].courseId = read.courseId
        /\ read.lecture.lectureSegments = ap[w].lectureSegments
        /\ read.lecture.rawAiMetaData = MetaOrEmpty(ap[w].fullAiData)

\* C26: in a 200 response of GET /students/:userId/courses, every lecture
\* whose segments were stored by ApplySegments has a segment list whose
\* start, end, title and summary are those of the stored lectureSegments,
\* whatever rawAiMetaData was delivered (none included).
C26_ViewShowsStoredSegments ==
    sc.status = 200
    => \A k \in DOMAIN sc.read :
         StoredByApplySegments(sc.read[k])
         => FourFields(sc.lectures[k].lectureSegments) = sc.read[k].lecture.lectureSegments

\* C27: at most one mongoose.connect attempt is pending at any time; a
\* caller that finds an attempt pending awaits that attempt; the cached
\* promise is never a failed attempt, so the call after a failure starts a
\* fresh one.
C27_OneConnectInFlight ==
    /\ Cardinality(Pending(conn)) <= 1
    /\ conn.cachedPromise # 0 => conn.attempts[conn.cachedPromise] # "rejected"
    /\ \A caller \in Callers :
         conn.pc[caller] = "awaiting" => conn.awaits[caller] \in DOMAIN conn.attempts

\* C28: the userId cookie is set only with the 201 of a signup that stored
\* a new user and with the 200 of a signin whose password matched and whose
\* requested role is the stored role; a response 400, 401, 403 or 500 sets
\* no cookie; a signup that did not answer 201 stored no user, and no email
\* is registered twice, whatever its case in the requests.
C28_CookieOnlyOnSuccess ==
    /\ \A k \in AuthHandlers :
         LET h == auth.h[k] IN
         /\ h.cookie # ""
              => /\ h.pc = "done" /\ h.status \in {200, 201}
                 /\ h.kind = "signup" => (h.status = 201 /\ h.stored /\ h.user \in auth.users)
                 /\ h.kind = "signin"
                      => /\ h.status = 200
                         /\ \E u \in auth.users :
                              /\ u.email = ToLowerCase(h.req.email)
                              /\ u.password = h.req.password
                              /\ u.role = h.req.role
         /\ h.status \in {400, 401, 403, 500} => h.cookie = ""
         /\ (h.kind = "signup" /\ h.pc = "done" /\ h.status # 201) => ~h.stored
         /\ (h.pc = "done" /\ h.status \in {200, 201}) => h.cookie # ""
    /\ \A u, v \in auth.users : u.email = v.email => u = v
    /\ Cardinality(auth.users)
         = 1 + Cardinality({k \in AuthHandlers : auth.h[k].stored})

\* A signup of bob answered 201 and a signin of Ann@X.io answered 200, each
\* with its cookie.
C28_Witness ==
    /\ auth.h["h1"].kind = "signup" /\ auth.h["h1"].status = 201
    /\ auth.h["h1"].cookie = "bob@x.io"
    /\ auth.h["h2"].kind = "signin" /\ auth.h["h2"].status = 200
    /\ auth.h["h2"].req.email = "Ann@X.io" /\ auth.h["h2"].cookie = "ann@x.io"

\* C29: in QuizDisplay, whatever the enabled buttons are used for,
\* 0 <= currentQuestion < number of questions, the results are shown only
\* when every question has a selected answer, and leaving the results view
\* (Retry) gives the initial state: question 0, no answers, results hidden.
C29_QuizStateInRange ==
    /\ []((quiz.mounted /\ quiz.n > 0)
            => /\ 0 <= quiz.currentQuestion /\ quiz.currentQuestion < quiz.n
               /\ quiz.showResults => \A i \in 0..(quiz.n - 1) : quiz.selectedAnswers[i] # "")
    /\ [][(quiz.mounted /\ quiz.showResults /\ ~quiz'.showResults)
            => quiz' = MountedQuiz(quiz.n)]_vars

\* The results of a quiz of three questions, each with its answer.
C29_Witness ==
    /\ quiz.mounted /\ quiz.n = 3 /\ quiz.showResults
    /\ quiz.currentQuestion = 2
    /\ quiz.selectedAnswers = [i \in 0..2 |-> IF i = 1 THEN "B" ELSE "A"]

\* The messages of the list, as a set.
Displayed(messages) == {messages[k] : k \in DOMAIN messages}

\* C30: when sendChatMessage fails, the displayed list loses the message
\* that was added for that send and nothing else, and without a session
\* change it is the list from before the send; a reply is appended only to
\* a list that shows the session it was sent in - whatever the interleaving
\* of the pending request with a session change and its history reload.
C30_FailedSendRestoresList ==
    [][/\ (chat.send.pc = "pending" /\ chat'.send.pc = "failed")
            => /\ Displayed(chat'.messages) = Displayed(chat.messages) \ {chat.send.msg}
               /\ chat.active = chat.send.session
                    => chat'.messages = chat.send.before
       /\ (chat.send.pc = "pending" /\ chat'.send.pc = "resolved"
             /\ chat'.messages # chat.messages)
            => \A k \in DOMAIN chat.messages :
                 chat.messages[k].session = chat.send.session]_vars

====
